---- MODULE Spec2Model ----
(***************************************************************************)
(* Prediction and odds-enrichment engine of chatbot-whatsapp-ia.           *)
(*                                                                         *)
(* Two generations of the pre-match pipeline live in the repository and    *)
(* both are modelled:                                                      *)
(*   "tipster"  src/tipster.py                 (merged module)             *)
(*   "sba"      src/sports_betting_analyzer.py (full market set)           *)
(*                                                                         *)
(* Conventions                                                             *)
(*   - a Python str is a sequence of one-character strings, so that        *)
(*     lower(), strip(), split(), "x in s" and f-string concatenation are  *)
(*     computed and not assumed;                                           *)
(*   - a Python dict is a function whose DOMAIN is the set of keys;        *)
(*   - a JSON scalar is a tagged record (JInt, JStr, JNull);               *)
(*   - confidences, power scores and prices are integers in hundredths     *)
(*     (0.85 is 85, 1.6 is 160, odds 2.00 is 200).                         *)
(***************************************************************************)
EXTENDS Integers, Sequences, FiniteSets, TLC

VARIABLES variant, pc, fixture, stats_raw, stats_map, preds, summary, odds_raw, enhanced, result,
          radar_data, tips, cache, now, last_set,
          events_raw, requests, callers, USER_STATE, META_VERIFY_TOKEN

\* the locals of analyze and of the functions it calls
analysisVars == <<fixture, stats_raw, stats_map, preds, summary, odds_raw, enhanced>>
\* the live record and the tips of the live engine
liveVars == <<radar_data, tips>>
\* the memo cache of a module, the wall clock it reads, and for each key the
\* time and value of the latest _cache_set (history, read by no action)
cacheVars == <<cache, now, last_set>>

\* what the upstream API answers for the events of a fixture, the number of
\* requests the latest call sent upstream, and the locals of the callers
\* running side by side
upstreamVars == <<events_raw, requests, callers>>
\* the sessions of the webhook and the verification token of the environment
webVars == <<USER_STATE, META_VERIFY_TOKEN>>

vars == <<variant, pc, result, analysisVars, liveVars, cacheVars, upstreamVars, webVars>>

(***************************************************************************)
(* JSON scalars                                                            *)
(***************************************************************************)
JNull == [t |-> "null"]
JInt(n) == [t |-> "int", v |-> n]
JStr(s) == [t |-> "str", v |-> s]
\* a float, carried in hundredths
JNum(h) == [t |-> "num", v |-> h]

(***************************************************************************)
(* Python str operations on character sequences                            *)
(***************************************************************************)
UpperChars == <<"A","B","C","D","E","F","G","H","I","J","K","L","M",
                "N","O","P","Q","R","S","T","U","V","W","X","Y","Z","Ó","Ã">>
LowerChars == <<"a","b","c","d","e","f","g","h","i","j","k","l","m",
                "n","o","p","q","r","s","t","u","v","w","x","y","z","ó","ã">>

LowerChar(c) ==
    IF \E i \in 1..Len(UpperChars) : UpperChars[i] = c
    THEN LowerChars[CHOOSE i \in 1..Len(UpperChars) : UpperChars[i] = c]
    ELSE c

UpperChar(c) ==
    IF \E i \in 1..Len(LowerChars) : LowerChars[i] = c
    THEN UpperChars[CHOOSE i \in 1..Len(LowerChars) : LowerChars[i] = c]
    ELSE c

\* str.lower()
Lower(s) == [i \in 1..Len(s) |-> LowerChar(s[i])]

\* str.capitalize(): first character upper-cased, the rest lower-cased
Capitalize(s) == [i \in 1..Len(s) |-> IF i = 1 THEN UpperChar(s[i]) ELSE LowerChar(s[i])]

\* needle in s
Contains(s, needle) ==
    \E i \in 1..(Len(s) - Len(needle) + 1) : SubSeq(s, i, i + Len(needle) - 1) = needle

\* str.replace(a, b) for single characters
ReplaceChar(s, a, b) == [i \in 1..Len(s) |-> IF s[i] = a THEN b ELSE s[i]]

IsSpace(c) == c \in {" ", "\t", "\n"}

\* str.strip()
Strip(s) ==
    LET idx == {i \in 1..Len(s) : ~IsSpace(s[i])}
    IN  IF idx = {} THEN <<>>
        ELSE LET lo == CHOOSE i \in idx : \A j \in idx : i <= j
                 hi == CHOOSE i \in idx : \A j \in idx : i >= j
             IN  SubSeq(s, lo, hi)

\* str.split(" "): cut at every single space, empty pieces kept
RECURSIVE SplitOn(_, _)
SplitOn(s, sep) ==
    LET idx == {i \in 1..Len(s) : s[i] = sep}
    IN  IF idx = {} THEN <<s>>
        ELSE LET k == CHOOSE i \in idx : \A j \in idx : i <= j
             IN  <<SubSeq(s, 1, k - 1)>> \o SplitOn(SubSeq(s, k + 1, Len(s)), sep)

\* str.split(): cut at runs of whitespace, no empty pieces
SplitWs(s) == SelectSeq(SplitOn([i \in 1..Len(s) |-> IF IsSpace(s[i]) THEN " " ELSE s[i]], " "),
                        LAMBDA w : w # <<>>)

\* sep.join(parts)
RECURSIVE Join(_, _)
Join(parts, sep) ==
    IF parts = <<>> THEN <<>>
    ELSE IF Len(parts) = 1 THEN parts[1]
    ELSE parts[1] \o sep \o Join(Tail(parts), sep)

Digits == <<"0","1","2","3","4","5","6","7","8","9">>
IsDigit(c) == \E i \in 1..10 : Digits[i] = c
DigitVal(c) == (CHOOSE i \in 1..10 : Digits[i] = c) - 1
AllDigits(s) == s # <<>> /\ \A i \in 1..Len(s) : IsDigit(s[i])

RECURSIVE DigitsVal(_)
DigitsVal(s) == IF s = <<>> THEN 0 ELSE 10 * DigitsVal(SubSeq(s, 1, Len(s) - 1)) + DigitVal(s[Len(s)])

\* str(n) for an integer
RECURSIVE NatStr(_)
NatStr(n) == IF n < 10 THEN <<Digits[n + 1]>> ELSE NatStr(n \div 10) \o <<Digits[(n % 10) + 1]>>
IntStr(n) == IF n < 0 THEN <<"-">> \o NatStr(-n) ELSE NatStr(n)

(***************************************************************************)
(* Number parsing and formatting                                           *)
(***************************************************************************)
\* sign and magnitude of a numeric literal: [ok, neg, body]
SignSplit(s) ==
    IF s # <<>> /\ s[1] \in {"-", "+"}
    THEN [neg |-> s[1] = "-", body |-> Tail(s)]
    ELSE [neg |-> FALSE, body |-> s]

\* int("...") succeeds: optional sign and digits, surrounding whitespace allowed
IsIntLiteral(s) == AllDigits(SignSplit(Strip(s)).body)

IntLiteralVal(s) ==
    LET p == SignSplit(Strip(s))
    IN  IF p.neg THEN -DigitsVal(p.body) ELSE DigitsVal(p.body)

\* float("...") succeeds on the decimal literals digits[.digits] and .digits
\* (exponents, inf and nan are outside the modelled alphabet)
IsDecLiteral(s) ==
    LET b == SignSplit(Strip(s)).body
        parts == SplitOn(b, ".")
    IN  \/ AllDigits(b)
        \/ /\ Len(parts) = 2
           /\ (parts[1] = <<>> \/ AllDigits(parts[1]))
           /\ (parts[2] = <<>> \/ AllDigits(parts[2]))
           /\ (parts[1] # <<>> \/ parts[2] # <<>>)

\* value of a decimal literal in hundredths (digits past the second are dropped)
DecLiteralHundredths(s) ==
    LET p == SignSplit(Strip(s))
        parts == SplitOn(p.body, ".")
        ip == IF parts[1] = <<>> THEN 0 ELSE DigitsVal(parts[1])
        fr == IF Len(parts) < 2 THEN <<>> ELSE parts[2]
        f2 == IF Len(fr) = 0 THEN 0
              ELSE IF Len(fr) = 1 THEN 10 * DigitVal(fr[1])
              ELSE 10 * DigitVal(fr[1]) + DigitVal(fr[2])
        mag == 100 * ip + f2
    IN  IF p.neg THEN -mag ELSE mag

\* int(x) of a float in hundredths: truncation toward zero
TruncHundredths(h) == IF h < 0 THEN -((-h) \div 100) ELSE h \div 100

\* safe_int: int(v), else int(float(v)), else 0
safe_int(v) ==
    CASE v.t = "int" -> v.v
      [] v.t = "num" -> TruncHundredths(v.v)
      [] v.t = "str" -> IF IsIntLiteral(v.v) THEN IntLiteralVal(v.v)
                        ELSE IF IsDecLiteral(v.v) THEN TruncHundredths(DecLiteralHundredths(v.v))
                        ELSE 0
      [] OTHER -> 0

\* str(v) of a JSON scalar, as far as float() can tell the results apart
PyStr(v) ==
    CASE v.t = "str" -> v.v
      [] v.t = "int" -> IntStr(v.v)
      [] v.t = "num" -> IntStr(TruncHundredths(v.v)) \o <<".">>
                        \o <<Digits[((IF v.v < 0 THEN -v.v ELSE v.v) % 100) \div 10 + 1],
                             Digits[((IF v.v < 0 THEN -v.v ELSE v.v) % 10) + 1]>>
      [] OTHER -> <<"N","o","n","e">>

\* safe_float (tipster): float(str(v).replace(",", ".")), the default 0.0 on failure
safe_float(v) ==
    LET s == ReplaceChar(PyStr(v), ",", ".")
    IN  IF IsDecLiteral(s) THEN DecLiteralHundredths(s) ELSE 0

\* f"{x:.1f}" of a value in hundredths: rounded to tenths, ties to even
Fmt1(h) ==
    LET a == IF h < 0 THEN -h ELSE h
        q == a \div 10
        r == a % 10
        t == IF r > 5 \/ (r = 5 /\ q % 2 = 1) THEN q + 1 ELSE q
        body == NatStr(t \div 10) \o <<".">> \o <<Digits[(t % 10) + 1]>>
    IN  IF h < 0 THEN <<"-">> \o body ELSE body

(***************************************************************************)
(* dict helpers                                                            *)
(***************************************************************************)
EmptyDict == <<>>
DictSet(d, k, v) == [x \in DOMAIN d \cup {k} |-> IF x = k THEN v ELSE d[x]]
\* d.get(k, default)
DictGet(d, k, default) == IF k \in DOMAIN d THEN d[k] ELSE default
\* truthiness of a JSON scalar
Truthy(v) ==
    CASE v.t = "null" -> FALSE
      [] v.t = "int" -> v.v # 0
      [] v.t = "num" -> v.v # 0
      [] v.t = "str" -> v.v # <<>>
      [] OTHER -> TRUE

(***************************************************************************)
(* String literals of the source files, as character sequences             *)
(***************************************************************************)
S ==
    [ Shots_on_Goal |-> <<"S", "h", "o", "t", "s", " ", "o", "n", " ", "G", "o", "a", "l">>,
      Total_shots |-> <<"T", "o", "t", "a", "l", " ", "s", "h", "o", "t", "s">>,
      Form |-> <<"F", "o", "r", "m">>,
      Total_Shots |-> <<"T", "o", "t", "a", "l", " ", "S", "h", "o", "t", "s">>,
      Shots |-> <<"S", "h", "o", "t", "s">>,
      Shots_on_Target |-> <<"S", "h", "o", "t", "s", " ", "o", "n", " ", "T", "a", "r", "g", "e", "t">>,
      Corners |-> <<"C", "o", "r", "n", "e", "r", "s">>,
      Corner_Kicks |-> <<"C", "o", "r", "n", "e", "r", " ", "K", "i", "c", "k", "s">>,
      Corner_Kicks_1H |-> <<"C", "o", "r", "n", "e", "r", " ", "K", "i", "c", "k", "s", " ", "1", "H">>,
      Ball_Possession |-> <<"B", "a", "l", "l", " ", "P", "o", "s", "s", "e", "s", "s", "i", "o", "n">>,
      Possession |-> <<"P", "o", "s", "s", "e", "s", "s", "i", "o", "n">>,
      Fouls |-> <<"F", "o", "u", "l", "s">>,
      Attacks |-> <<"A", "t", "t", "a", "c", "k", "s">>,
      Dangerous_Attacks |-> <<"D", "a", "n", "g", "e", "r", "o", "u", "s", " ", "A", "t", "t", "a", "c", "k", "s">>,
      Corners_1st_Half |-> <<"C", "o", "r", "n", "e", "r", "s", " ", "1", "s", "t", " ", "H", "a", "l", "f">>,
      Corners_Half_Time |-> <<"C", "o", "r", "n", "e", "r", "s", " ", "H", "a", "l", "f", " ", "T", "i", "m", "e">>,
      Yellow_Cards |-> <<"Y", "e", "l", "l", "o", "w", " ", "C", "a", "r", "d", "s">>,
      Resultado_Final |-> <<"R", "e", "s", "u", "l", "t", "a", "d", "o", " ", "F", "i", "n", "a", "l">>,
      Vitoria_Casa |-> <<"V", "i", "t", "ó", "r", "i", "a", " ", "C", "a", "s", "a">>,
      Handicap_Asiatico |-> <<"H", "a", "n", "d", "i", "c", "a", "p", " ", "A", "s", "i", "á", "t", "i", "c", "o">>,
      Casa_0p5 |-> <<"C", "a", "s", "a", " ", "-", "0", ".", "5">>,
      Vitoria_Visitante |-> <<"V", "i", "t", "ó", "r", "i", "a", " ", "V", "i", "s", "i", "t", "a", "n", "t", "e">>,
      Visitante_0p5 |-> <<"V", "i", "s", "i", "t", "a", "n", "t", "e", " ", "-", "0", ".", "5">>,
      Dupla_Chance |-> <<"D", "u", "p", "l", "a", " ", "C", "h", "a", "n", "c", "e">>,
      Casa_ou_Empate |-> <<"C", "a", "s", "a", " ", "o", "u", " ", "E", "m", "p", "a", "t", "e">>,
      Total_de_Gols |-> <<"T", "o", "t", "a", "l", " ", "d", "e", " ", "G", "o", "l", "s">>,
      Mais_de_1p5 |-> <<"M", "a", "i", "s", " ", "d", "e", " ", "1", ".", "5">>,
      Menos_de_2p5 |-> <<"M", "e", "n", "o", "s", " ", "d", "e", " ", "2", ".", "5">>,
      Ambas_Marcam |-> <<"A", "m", "b", "a", "s", " ", "M", "a", "r", "c", "a", "m">>,
      Sim |-> <<"S", "i", "m">>,
      Sem_favorito_definido |-> <<"S", "e", "m", " ", "f", "a", "v", "o", "r", "i", "t", "o", " ", "d", "e", "f", "i", "n", "i", "d", "o">>,
      Mais_de |-> <<"M", "a", "i", "s", " ", "d", "e">>,
      Menos_de |-> <<"M", "e", "n", "o", "s", " ", "d", "e">>,
      m0p5 |-> <<"-", "0", ".", "5">>,
      plus0p5 |-> <<"+", "0", ".", "5">>,
      Empate |-> <<"E", "m", "p", "a", "t", "e">>,
      Fora_ou_Empate |-> <<"F", "o", "r", "a", " ", "o", "u", " ", "E", "m", "p", "a", "t", "e">>,
      Nao_tilde |-> <<"N", "ã", "o">>,
      Escanteios_Asiaticos |-> <<"E", "s", "c", "a", "n", "t", "e", "i", "o", "s", " ", "A", "s", "i", "á", "t", "i", "c", "o", "s">>,
      Casa |-> <<"C", "a", "s", "a">>,
      Visitante |-> <<"V", "i", "s", "i", "t", "a", "n", "t", "e">>,
      Match_Winner |-> <<"M", "a", "t", "c", "h", " ", "W", "i", "n", "n", "e", "r">>,
      Home |-> <<"H", "o", "m", "e">>,
      Away |-> <<"A", "w", "a", "y">>,
      Draw |-> <<"D", "r", "a", "w">>,
      Double_Chance |-> <<"D", "o", "u", "b", "l", "e", " ", "C", "h", "a", "n", "c", "e">>,
      Home_Draw |-> <<"H", "o", "m", "e", "/", "D", "r", "a", "w">>,
      Away_Draw |-> <<"A", "w", "a", "y", "/", "D", "r", "a", "w">>,
      Both_Teams_to_Score |-> <<"B", "o", "t", "h", " ", "T", "e", "a", "m", "s", " ", "t", "o", " ", "S", "c", "o", "r", "e">>,
      Yes |-> <<"Y", "e", "s">>,
      No |-> <<"N", "o">>,
      Over_Under |-> <<"O", "v", "e", "r", "/", "U", "n", "d", "e", "r">>,
      Over |-> <<"O", "v", "e", "r">>,
      Under |-> <<"U", "n", "d", "e", "r">>,
      Asian_Corners |-> <<"A", "s", "i", "a", "n", " ", "C", "o", "r", "n", "e", "r", "s">>,
      Asian_Handicap |-> <<"A", "s", "i", "a", "n", " ", "H", "a", "n", "d", "i", "c", "a", "p">>,
      moneyline |-> <<"m", "o", "n", "e", "y", "l", "i", "n", "e">>,
      dnb |-> <<"d", "n", "b">>,
      double_chance |-> <<"d", "o", "u", "b", "l", "e", "_", "c", "h", "a", "n", "c", "e">>,
      over_1_5 |-> <<"o", "v", "e", "r", "_", "1", "_", "5">>,
      over_2_5 |-> <<"o", "v", "e", "r", "_", "2", "_", "5">>,
      btts |-> <<"b", "t", "t", "s">>,
      over_3_5 |-> <<"o", "v", "e", "r", "_", "3", "_", "5">>,
      corners_ht_over |-> <<"c", "o", "r", "n", "e", "r", "s", "_", "h", "t", "_", "o", "v", "e", "r">>,
      over_2_5_ht |-> <<"o", "v", "e", "r", "_", "2", "_", "5", "_", "h", "t">>,
      asian_handicap_home |-> <<"a", "s", "i", "a", "n", "_", "h", "a", "n", "d", "i", "c", "a", "p", "_", "h", "o", "m", "e">>,
      asian_handicap_away |-> <<"a", "s", "i", "a", "n", "_", "h", "a", "n", "d", "i", "c", "a", "p", "_", "a", "w", "a", "y">>,
      handicap_european |-> <<"h", "a", "n", "d", "i", "c", "a", "p", "_", "e", "u", "r", "o", "p", "e", "a", "n">>,
      ht_ft |-> <<"h", "t", "_", "f", "t">>,
      corners_ft_over |-> <<"c", "o", "r", "n", "e", "r", "s", "_", "f", "t", "_", "o", "v", "e", "r">>,
      corners_ft_under |-> <<"c", "o", "r", "n", "e", "r", "s", "_", "f", "t", "_", "u", "n", "d", "e", "r">>,
      corners_asian_ft |-> <<"c", "o", "r", "n", "e", "r", "s", "_", "a", "s", "i", "a", "n", "_", "f", "t">>,
      cards_over |-> <<"c", "a", "r", "d", "s", "_", "o", "v", "e", "r">>,
      Casa_DNB |-> <<"C", "a", "s", "a", " ", "(", "D", "N", "B", ")">>,
      Fora_DNB |-> <<"F", "o", "r", "a", " ", "(", "D", "N", "B", ")">>,
      OVER_1p5 |-> <<"O", "V", "E", "R", " ", "1", ".", "5">>,
      OVER_2p5 |-> <<"O", "V", "E", "R", " ", "2", ".", "5">>,
      SIM |-> <<"S", "I", "M">>,
      UNDER_2p5 |-> <<"U", "N", "D", "E", "R", " ", "2", ".", "5">>,
      UNDER_1p5 |-> <<"U", "N", "D", "E", "R", " ", "1", ".", "5">>,
      OVER_3p5 |-> <<"O", "V", "E", "R", " ", "3", ".", "5">>,
      UNDER_3p5 |-> <<"U", "N", "D", "E", "R", " ", "3", ".", "5">>,
      NAO |-> <<"N", "A", "O">>,
      OVER_4p5 |-> <<"O", "V", "E", "R", " ", "4", ".", "5">>,
      OVER_1p0 |-> <<"O", "V", "E", "R", " ", "1", ".", "0">>,
      OVER_9p5 |-> <<"O", "V", "E", "R", " ", "9", ".", "5">>,
      UNDER_9p5 |-> <<"U", "N", "D", "E", "R", " ", "9", ".", "5">>,
      sp_m1p0 |-> <<" ", "-", "1", ".", "0">>,
      sp_m0p5 |-> <<" ", "-", "0", ".", "5">>,
      sp_m1 |-> <<" ", "-", "1">>,
      sp_slash |-> <<" ", "/", " ">>,
      sp_m1p5 |-> <<" ", "-", "1", ".", "5">>,
      casa |-> <<"c", "a", "s", "a">>,
      home |-> <<"h", "o", "m", "e">>,
      vitoria_casa |-> <<"v", "i", "t", "ó", "r", "i", "a", " ", "c", "a", "s", "a">>,
      n1 |-> <<"1">>,
      fora |-> <<"f", "o", "r", "a">>,
      away |-> <<"a", "w", "a", "y">>,
      vitoria_visitante |-> <<"v", "i", "t", "ó", "r", "i", "a", " ", "v", "i", "s", "i", "t", "a", "n", "t", "e">>,
      n2 |-> <<"2">>,
      casa_ou_empate |-> <<"c", "a", "s", "a", " ", "o", "u", " ", "e", "m", "p", "a", "t", "e">>,
      fora_ou_empate |-> <<"f", "o", "r", "a", " ", "o", "u", " ", "e", "m", "p", "a", "t", "e">>,
      over |-> <<"o", "v", "e", "r">>,
      over_2p5 |-> <<"o", "v", "e", "r", " ", "2", ".", "5">>,
      over2p5 |-> <<"o", "v", "e", "r", "2", ".", "5">>,
      under |-> <<"u", "n", "d", "e", "r">>,
      over_1p5 |-> <<"o", "v", "e", "r", " ", "1", ".", "5">>,
      n1p5 |-> <<"1", ".", "5">>,
      n3p5 |-> <<"3", ".", "5">>,
      sim |-> <<"s", "i", "m">>,
      yes |-> <<"y", "e", "s">>,
      nao_tilde |-> <<"n", "ã", "o">>,
      nao |-> <<"n", "a", "o">>,
      no |-> <<"n", "o">>,
      dash |-> <<"-">>,
      n9p5 |-> <<"9", ".", "5">>,
      n4p5 |-> <<"4", ".", "5">>,
      Match_Result |-> <<"M", "a", "t", "c", "h", " ", "R", "e", "s", "u", "l", "t">>,
      n1X2 |-> <<"1", "X", "2">>,
      Draw_No_Bet |-> <<"D", "r", "a", "w", " ", "N", "o", " ", "B", "e", "t">>,
      Draw_No_Bet_FT |-> <<"D", "r", "a", "w", " ", "N", "o", " ", "B", "e", "t", " ", "F", "T">>,
      DNB |-> <<"D", "N", "B">>,
      Goals_Over_Under |-> <<"G", "o", "a", "l", "s", " ", "O", "v", "e", "r", "/", "U", "n", "d", "e", "r">>,
      Half_time_Goals_Over_Under |-> <<"H", "a", "l", "f", "-", "t", "i", "m", "e", " ", "G", "o", "a", "l", "s", " ", "O", "v", "e", "r", "/", "U", "n", "d", "e", "r">>,
      Goals_Over_Under_1st_Half |-> <<"G", "o", "a", "l", "s", " ", "O", "v", "e", "r", "/", "U", "n", "d", "e", "r", " ", "-", " ", "1", "s", "t", " ", "H", "a", "l", "f">>,
      Both_Teams_To_Score |-> <<"B", "o", "t", "h", " ", "T", "e", "a", "m", "s", " ", "T", "o", " ", "S", "c", "o", "r", "e">>,
      Both_Teams_To_ScoreQ |-> <<"B", "o", "t", "h", " ", "T", "e", "a", "m", "s", " ", "T", "o", " ", "S", "c", "o", "r", "e", "?">>,
      Asian_Handicap_Match |-> <<"A", "s", "i", "a", "n", " ", "H", "a", "n", "d", "i", "c", "a", "p", " ", "M", "a", "t", "c", "h">>,
      European_Handicap |-> <<"E", "u", "r", "o", "p", "e", "a", "n", " ", "H", "a", "n", "d", "i", "c", "a", "p">>,
      Handicap |-> <<"H", "a", "n", "d", "i", "c", "a", "p">>,
      Half_Time_Full_Time |-> <<"H", "a", "l", "f", " ", "T", "i", "m", "e", " ", "/", " ", "F", "u", "l", "l", " ", "T", "i", "m", "e">>,
      HT_FT |-> <<"H", "T", "/", "F", "T">>,
      Corners_Over_Under |-> <<"C", "o", "r", "n", "e", "r", "s", " ", "O", "v", "e", "r", "/", "U", "n", "d", "e", "r">>,
      Corners_Total |-> <<"C", "o", "r", "n", "e", "r", "s", " ", "T", "o", "t", "a", "l">>,
      n1st_Half_Corners |-> <<"1", "s", "t", " ", "H", "a", "l", "f", " ", "C", "o", "r", "n", "e", "r", "s">>,
      Corners_Over_Under_1st_Half |-> <<"C", "o", "r", "n", "e", "r", "s", " ", "O", "v", "e", "r", "/", "U", "n", "d", "e", "r", " ", "-", " ", "1", "s", "t", " ", "H", "a", "l", "f">>,
      Corners_Asian_Handicap |-> <<"C", "o", "r", "n", "e", "r", "s", " ", "A", "s", "i", "a", "n", " ", "H", "a", "n", "d", "i", "c", "a", "p">>,
      Cards_Over_Under |-> <<"C", "a", "r", "d", "s", " ", "O", "v", "e", "r", "/", "U", "n", "d", "e", "r">>,
      Total_Cards |-> <<"T", "o", "t", "a", "l", " ", "C", "a", "r", "d", "s">>,
      Over_2p5 |-> <<"O", "v", "e", "r", " ", "2", ".", "5">>,
      Under_2p5 |-> <<"U", "n", "d", "e", "r", " ", "2", ".", "5">>,
      Over_1p5 |-> <<"O", "v", "e", "r", " ", "1", ".", "5">>,
      Under_1p5 |-> <<"U", "n", "d", "e", "r", " ", "1", ".", "5">>,
      Over_3p5 |-> <<"O", "v", "e", "r", " ", "3", ".", "5">>,
      Under_3p5 |-> <<"U", "n", "d", "e", "r", " ", "3", ".", "5">>,
      Over_1p0 |-> <<"O", "v", "e", "r", " ", "1", ".", "0">>,
      Under_1p0 |-> <<"U", "n", "d", "e", "r", " ", "1", ".", "0">>,
      Over_9p5 |-> <<"O", "v", "e", "r", " ", "9", ".", "5">>,
      Under_9p5 |-> <<"U", "n", "d", "e", "r", " ", "9", ".", "5">>,
      Over_4p5 |-> <<"O", "v", "e", "r", " ", "4", ".", "5">>,
      bet365 |-> <<"b", "e", "t", "3", "6", "5">>,
      betano |-> <<"b", "e", "t", "a", "n", "o">>,
      superbet |-> <<"s", "u", "p", "e", "r", "b", "e", "t">>,
      pinnacle |-> <<"p", "i", "n", "n", "a", "c", "l", "e">>,
      Bet365 |-> <<"B", "e", "t", "3", "6", "5">>,
      Betano |-> <<"B", "e", "t", "a", "n", "o">>,
      n1xBet |-> <<"1", "x", "B", "e", "t">>,
      Ajax |-> <<"A", "j", "a", "x">>,
      Roma |-> <<"R", "o", "m", "a">>,
      n57pct |-> <<"5", "7", "%">>,
      n43pct |-> <<"4", "3", "%">>,
      n1p50 |-> <<"1", ".", "5", "0">>,
      n2p00 |-> <<"2", ".", "0", "0">>,
      n2c00 |-> <<"2", ",", "0", "0">>,
      abc |-> <<"a", "b", "c">>,
      n0p90 |-> <<"0", ".", "9", "0">>,
      total_shots |-> <<"t", "o", "t", "a", "l", "_", "s", "h", "o", "t", "s">>,
      shots_total |-> <<"s", "h", "o", "t", "s", "_", "t", "o", "t", "a", "l">>,
      shots |-> <<"s", "h", "o", "t", "s">>,
      shots_on_goal |-> <<"s", "h", "o", "t", "s", "_", "o", "n", "_", "g", "o", "a", "l">>,
      shots_on_target |-> <<"s", "h", "o", "t", "s", "_", "o", "n", "_", "t", "a", "r", "g", "e", "t">>,
      shots_on |-> <<"s", "h", "o", "t", "s", "_", "o", "n">>,
      on_target |-> <<"o", "n", "_", "t", "a", "r", "g", "e", "t">>,
      corner_kicks |-> <<"c", "o", "r", "n", "e", "r", "_", "k", "i", "c", "k", "s">>,
      corners |-> <<"c", "o", "r", "n", "e", "r", "s">>,
      corner_kicks_full |-> <<"c", "o", "r", "n", "e", "r", "_", "k", "i", "c", "k", "s", "_", "f", "u", "l", "l">>,
      ball_possession |-> <<"b", "a", "l", "l", "_", "p", "o", "s", "s", "e", "s", "s", "i", "o", "n">>,
      n12 |-> <<"1", "2">>,
      n57 |-> <<"5", "7">>,
      Gols_Asiaticos |-> <<"G", "o", "l", "s", " ", "A", "s", "i", "á", "t", "i", "c", "o", "s">>,
      Escanteios_Equipe |-> <<"E", "s", "c", "a", "n", "t", "e", "i", "o", "s", " ", "(", "E", "q", "u", "i", "p", "e", ")">>,
      Proximo_escanteio_Casa |-> <<"P", "r", "ó", "x", "i", "m", "o", " ", "e", "s", "c", "a", "n", "t", "e", "i", "o", " ", "p", "a", "r", "a", " ", "o", " ", "T", "i", "m", "e", " ", "d", "a", " ", "C", "a", "s", "a">>,
      Proximo_escanteio_Visitante |-> <<"P", "r", "ó", "x", "i", "m", "o", " ", "e", "s", "c", "a", "n", "t", "e", "i", "o", " ", "p", "a", "r", "a", " ", "o", " ", "T", "i", "m", "e", " ", "V", "i", "s", "i", "t", "a", "n", "t", "e">>,
      Proximo_Gol |-> <<"P", "r", "ó", "x", "i", "m", "o", " ", "G", "o", "l">>,
      Vitoria_do_Time_da_Casa |-> <<"V", "i", "t", "ó", "r", "i", "a", " ", "d", "o", " ", "T", "i", "m", "e", " ", "d", "a", " ", "C", "a", "s", "a">>,
      Vitoria_do_Time_Visitante |-> <<"V", "i", "t", "ó", "r", "i", "a", " ", "d", "o", " ", "T", "i", "m", "e", " ", "V", "i", "s", "i", "t", "a", "n", "t", "e">>,
      Menos_de_1p5 |-> <<"M", "e", "n", "o", "s", " ", "d", "e", " ", "1", ".", "5">>,
      Analise |-> <<"A", "n", "á", "l", "i", "s", "e">>,
      Aguardando_Oportunidade |-> <<"A", "g", "u", "a", "r", "d", "a", "n", "d", "o", " ", "O", "p", "o", "r", "t", "u", "n", "i", "d", "a", "d", "e">> ]

(***************************************************************************)
(* Statistics: api_get_raw("fixtures/statistics") and build_stats_map      *)
(*   a payload is NoResponse (api_get_raw returned None) or                *)
(*   [response |-> <<item, ...>>], item = [team |-> [id |-> J],            *)
(*   statistics |-> <<[type |-> J, value |-> J], ...>>]                    *)
(***************************************************************************)
NoResponse == [t |-> "none"]
IsNoResponse(r) == r = NoResponse

\* x or y on strings held in JSON scalars
StrOrEmpty(v) == IF Truthy(v) THEN v.v ELSE <<>>

RECURSIVE StatsOfItem_tipster(_, _)
StatsOfItem_tipster(stats, out) ==
    IF stats = <<>> THEN out
    ELSE LET st == Head(stats)
             k == Strip(StrOrEmpty(st.type))
         IN  StatsOfItem_tipster(Tail(stats), DictSet(out, k, safe_int(st.value)))

RECURSIVE FoldItems_tipster(_, _)
FoldItems_tipster(items, out) ==
    IF items = <<>> THEN out
    ELSE LET item == Head(items)
             \* a record without team, or with a null team in sba, has no id
             tid == IF "team" \in DOMAIN item /\ item.team # JNull
                    THEN DictGet(item.team, "id", JNull) ELSE JNull
         IN  IF ~Truthy(tid) THEN FoldItems_tipster(Tail(items), out)
             ELSE FoldItems_tipster(Tail(items),
                      DictSet(out, tid.v, StatsOfItem_tipster(item.statistics, EmptyDict)))

build_stats_map_tipster(raw) ==
    IF IsNoResponse(raw) \/ "response" \notin DOMAIN raw THEN EmptyDict
    ELSE FoldItems_tipster(raw.response, EmptyDict)

\* sba: "a/b" values keep the part before the slash
StatValue_sba(v) ==
    IF v.t = "str" /\ Contains(v.v, <<"/">>)
    THEN LET first == SplitOn(v.v, "/")[1]
         IN  IF IsIntLiteral(first) THEN IntLiteralVal(first) ELSE safe_int(v)
    ELSE safe_int(v)

RECURSIVE StatsOfItem_sba(_, _)
StatsOfItem_sba(stats, out) ==
    IF stats = <<>> THEN out
    ELSE LET st == Head(stats)
             nm == DictGet(st, "name", JNull)
             k == Strip(IF Truthy(st.type) THEN st.type.v ELSE StrOrEmpty(nm))
         IN  StatsOfItem_sba(Tail(stats), DictSet(out, k, StatValue_sba(st.value)))

RECURSIVE FoldItems_sba(_, _)
FoldItems_sba(items, out) ==
    IF items = <<>> THEN out
    ELSE LET item == Head(items)
             \* a record without team, or with a null team in sba, has no id
             tid == IF "team" \in DOMAIN item /\ item.team # JNull
                    THEN DictGet(item.team, "id", JNull) ELSE JNull
         IN  IF ~Truthy(tid) THEN FoldItems_sba(Tail(items), out)
             ELSE FoldItems_sba(Tail(items),
                      DictSet(out, tid.v, StatsOfItem_sba(item.statistics, EmptyDict)))

build_stats_map_sba(raw) ==
    IF IsNoResponse(raw) \/ "response" \notin DOMAIN raw THEN EmptyDict
    ELSE FoldItems_sba(raw.response, EmptyDict)

(***************************************************************************)
(* Recommendations                                                         *)
(*   a dict with keys market, recommendation, confidence and, when given,  *)
(*   reason; a reason is the sequence of the pieces of its f-string        *)
(*   (literal text as a string, formatted values as character sequences)   *)
(***************************************************************************)
Rec(market, rec, conf) == [market |-> market, recommendation |-> rec, confidence |-> conf]
RecWhy(market, rec, conf, reason) ==
    [market |-> market, recommendation |-> rec, confidence |-> conf, reason |-> reason]

\* list.sort(key=confidence, reverse=True): stable, equal keys keep their order
RECURSIVE InsertDesc(_, _)
InsertDesc(sorted, x) ==
    IF sorted = <<>> THEN <<x>>
    ELSE IF Head(sorted).confidence >= x.confidence
         THEN <<Head(sorted)>> \o InsertDesc(Tail(sorted), x)
         ELSE <<x>> \o sorted

RECURSIVE SortFrom(_, _)
SortFrom(rest, sorted) ==
    IF rest = <<>> THEN sorted ELSE SortFrom(Tail(rest), InsertDesc(sorted, Head(rest)))

SortDescUnsorted(ps) == ps
SortAscending(ps) == LET d == SortFrom(ps, <<>>) IN [i \in 1..Len(d) |-> d[Len(d) + 1 - i]]
SortDesc(ps) == SortFrom(ps, <<>>)

\* a slice that keeps the whole list
TakeAll(ps, n) == ps
\* ps[:n]
Take(ps, n) == SubSeq(ps, 1, IF Len(ps) < n THEN Len(ps) ELSE n)

HasMarket(ps, m) == \E i \in 1..Len(ps) : ps[i].market = m

(***************************************************************************)
(* tipster.heuristics_football                                             *)
(***************************************************************************)
\* g(d, k_list): the first label whose value is truthy, else 0
RECURSIVE g_tipster(_, _)
g_tipster(d, k_list) ==
    IF k_list = <<>> THEN 0
    ELSE IF DictGet(d, Head(k_list), 0) # 0 THEN d[Head(k_list)]
    ELSE g_tipster(d, Tail(k_list))

\* h_form.count('W') * 2 if isinstance(h_form, str) else 0: build_stats_map
\* stores safe_int results, so the value is never a str
FormBonus(form) == 0

Power_tipster(sot, form) == sot * 150 + FormBonus(form)

Rules_tipster(h_sot, a_sot, power_diff) ==
    LET total_shots == h_sot + a_sot
        side == IF power_diff > 500
                THEN << RecWhy(S.Resultado_Final, S.Vitoria_Casa, 75,
                               <<"Casa com maior poder de fogo (", Fmt1(power_diff), ")">>),
                        RecWhy(S.Handicap_Asiatico, S.Casa_0p5, 65,
                               <<"Casa é favorita para vencer">>) >>
                ELSE IF power_diff < -500
                THEN << RecWhy(S.Resultado_Final, S.Vitoria_Visitante, 75,
                               <<"Visitante com maior poder de fogo (", Fmt1(power_diff), ")">>),
                        RecWhy(S.Handicap_Asiatico, S.Visitante_0p5, 65,
                               <<"Visitante é favorito para vencer">>) >>
                ELSE << RecWhy(S.Dupla_Chance, S.Casa_ou_Empate, 50,
                               <<"Jogo equilibrado, casa tem pequena vantagem">>) >>
        totals == IF total_shots > 10
                  THEN << RecWhy(S.Total_de_Gols, S.Mais_de_1p5, 65,
                                 <<IntStr(total_shots), " remates esperados no total">>) >>
                  ELSE IF total_shots < 5
                  THEN << RecWhy(S.Total_de_Gols, S.Menos_de_2p5, 60,
                                 <<"Equipes com baixa média de remates">>) >>
                  ELSE <<>>
        both == IF h_sot > 4 /\ a_sot > 4
                THEN << RecWhy(S.Ambas_Marcam, S.Sim, 70,
                               <<"Ambas as equipes criam chances (", IntStr(h_sot), " vs ",
                                 IntStr(a_sot), " remates)">>) >>
                ELSE <<>>
    IN  side \o totals \o both

\* the conservative picks appended when fewer than 3 rules fired
PadNothing_tipster(ps) == ps
Pad_tipster(ps) ==
    IF Len(ps) >= 3 THEN ps
    ELSE LET p1 == IF HasMarket(ps, S.Total_de_Gols) THEN ps
                   ELSE Append(ps, RecWhy(S.Total_de_Gols, S.Mais_de_1p5, 45,
                                          <<"Sugestão conservadora">>))
             p2 == IF HasMarket(p1, S.Ambas_Marcam) THEN p1
                   ELSE Append(p1, RecWhy(S.Ambas_Marcam, S.Sim, 40,
                                          <<"Sugestão conservadora">>))
             p3 == IF HasMarket(p2, S.Resultado_Final) THEN p2
                   ELSE Append(p2, RecWhy(S.Resultado_Final, S.Sem_favorito_definido, 30,
                                          <<"Dados limitados">>))
         IN  p3

\* returns [preds, summary]
heuristics_football_tipster(fixture_raw, smap) ==
    LET home == fixture_raw.teams.home
        away == fixture_raw.teams.away
        home_stats == DictGet(smap, home.id, EmptyDict)
        away_stats == DictGet(smap, away.id, EmptyDict)
        h_sot == g_tipster(home_stats, <<S.Shots_on_Goal, S.Total_shots>>)
        a_sot == g_tipster(away_stats, <<S.Shots_on_Goal, S.Total_shots>>)
        h_form == g_tipster(home_stats, <<S.Form>>)
        a_form == g_tipster(away_stats, <<S.Form>>)
        h_power == Power_tipster(h_sot, h_form)
        a_power == Power_tipster(a_sot, a_form)
        power_diff == h_power - a_power
        sorted == SortDesc(Rules_tipster(h_sot, a_sot, power_diff))
    IN  [preds |-> Take(Pad_tipster(sorted), 3),
         summary |-> [home_power |-> h_power, away_power |-> a_power]]

(***************************************************************************)
(* sports_betting_analyzer.heuristics_football                             *)
(***************************************************************************)
\* g(d, *keys): the value of the first label present, else 0
RECURSIVE g_sba(_, _)
g_sba(d, keys) ==
    IF keys = <<>> THEN 0
    ELSE IF Head(keys) \in DOMAIN d THEN d[Head(keys)]
    ELSE g_sba(d, Tail(keys))

\* norm_pos: the map holds ints (build_stats_map), for which int(x) is x
norm_pos(x) == x

Abs(n) == IF n < 0 THEN -n ELSE n

\* weights of the power score, in hundredths
W_SOT == 160
W_SHOTS == 60
W_CORNERS == 35
W_POS == 20
W_FOULS == 10

Power_sba(sot, shots, corners, pos, fouls) ==
    sot * W_SOT + shots * W_SHOTS + corners * W_CORNERS + pos * W_POS - fouls * W_FOULS

\* the locals of heuristics_football before the first rule
Locals_sba(fixture_raw, smap) ==
    LET home == fixture_raw.teams.home
        away == fixture_raw.teams.away
        hs == DictGet(smap, home.id, EmptyDict)
        as == DictGet(smap, away.id, EmptyDict)
        h_shots == g_sba(hs, <<S.Total_Shots, S.Shots>>)
        a_shots == g_sba(as, <<S.Total_Shots, S.Shots>>)
        h_sot == g_sba(hs, <<S.Shots_on_Goal, S.Shots_on_Target>>)
        a_sot == g_sba(as, <<S.Shots_on_Goal, S.Shots_on_Target>>)
        h_corners == g_sba(hs, <<S.Corners, S.Corner_Kicks, S.Corner_Kicks_1H>>)
        a_corners == g_sba(as, <<S.Corners, S.Corner_Kicks, S.Corner_Kicks_1H>>)
        h_pos == norm_pos(g_sba(hs, <<S.Ball_Possession, S.Possession>>))
        a_pos == norm_pos(g_sba(as, <<S.Ball_Possession, S.Possession>>))
        h_fouls == g_sba(hs, <<S.Fouls>>)
        a_fouls == g_sba(as, <<S.Fouls>>)
        h_power == Power_sba(h_sot, h_shots, h_corners, h_pos, h_fouls)
        a_power == Power_sba(a_sot, a_shots, a_corners, a_pos, a_fouls)
    IN  [ home_name |-> home.name, away_name |-> away.name,
          h_shots |-> h_shots, a_shots |-> a_shots,
          h_sot |-> h_sot, a_sot |-> a_sot,
          h_corners |-> h_corners, a_corners |-> a_corners,
          h_pos |-> h_pos, a_pos |-> a_pos,
          h_attacks |-> g_sba(hs, <<S.Attacks, S.Attacks>>),
          a_attacks |-> g_sba(as, <<S.Attacks, S.Attacks>>),
          h_danger |-> g_sba(hs, <<S.Dangerous_Attacks, S.Dangerous_Attacks>>),
          a_danger |-> g_sba(as, <<S.Dangerous_Attacks, S.Dangerous_Attacks>>),
          h_corners_ht |-> g_sba(hs, <<S.Corners_1st_Half, S.Corners_Half_Time, S.Corner_Kicks_1H>>),
          a_corners_ht |-> g_sba(as, <<S.Corners_1st_Half, S.Corners_Half_Time, S.Corner_Kicks_1H>>),
          h_yellow |-> g_sba(hs, <<S.Yellow_Cards>>),
          a_yellow |-> g_sba(as, <<S.Yellow_Cards>>),
          h_power |-> h_power, a_power |-> a_power,
          power_diff |-> h_power - a_power,
          total_goals |-> safe_int(fixture_raw.goals.home) + safe_int(fixture_raw.goals.away),
          is_pregame |-> ~Truthy(fixture_raw.status.elapsed) ]

\* power_diff > 6 and power_diff < -6
StrongHomeAtThreshold(power_diff) == power_diff >= 600
StrongHome(power_diff) == power_diff > 600
StrongAwayAtThreshold(power_diff) == power_diff <= -600
StrongAway(power_diff) == power_diff < -600

\* "Power-based strong picks"
RulesPower_sba(x) ==
    IF StrongHome(x.power_diff)
    THEN << RecWhy(S.moneyline, S.Vitoria_Casa, 85, <<"Power diff ", Fmt1(x.power_diff)>>),
            Rec(S.dnb, S.Casa_DNB, 70),
            Rec(S.double_chance, S.Casa_ou_Empate, 60) >>
    ELSE IF StrongAway(x.power_diff)
    THEN << RecWhy(S.moneyline, S.Vitoria_Visitante, 85, <<"Power diff ", Fmt1(x.power_diff)>>),
            Rec(S.dnb, S.Fora_DNB, 70),
            Rec(S.double_chance, S.Fora_ou_Empate, 60) >>
    ELSE LET pos_diff == Abs(x.h_pos - x.a_pos)
             danger_diff == Abs(x.h_danger - x.a_danger)
             attacks_diff == Abs(x.h_attacks - x.a_attacks)
             balanced == /\ Abs(x.power_diff) < 100
                         /\ pos_diff <= 3
                         /\ danger_diff <= 1
                         /\ attacks_diff <= 2
         IN  << Rec(S.moneyline, S.Sem_favorito_definido, 35) >>
             \o (IF balanced THEN <<>>
                 ELSE IF x.h_pos > x.a_pos \/ x.h_danger > x.a_danger \/ x.h_attacks > x.a_attacks
                 THEN << Rec(S.double_chance, S.Casa_ou_Empate, 50) >>
                 ELSE << Rec(S.double_chance, S.Fora_ou_Empate, 50) >>)

\* "DNB mid strength if power difference noticeable"
RulesDnb_sba(x) ==
    IF Abs(x.power_diff) >= 300
    THEN IF x.power_diff > 0 THEN << Rec(S.dnb, S.Casa_DNB, 65) >>
         ELSE << Rec(S.dnb, S.Fora_DNB, 65) >>
    ELSE <<>>

\* "Goals / Over-Under" and both teams to score
RulesGoals_sba(x) ==
    LET combined_sot == x.h_sot + x.a_sot
        combined_shots == x.h_shots + x.a_shots
    IN  IF x.is_pregame
        THEN << RecWhy(S.over_1_5, S.OVER_1p5, 65, <<"Tendência histórica de gols">>),
                RecWhy(S.over_2_5, S.OVER_2p5, 55, <<"Probabilidade média pré-jogo">>),
                RecWhy(S.btts, S.SIM, 55, <<"Ambas marcam comum em pré-jogo equilibrado">>) >>
        ELSE << IF combined_sot >= 4 \/ combined_shots >= 12
                THEN RecWhy(S.over_2_5, S.OVER_2p5, 75,
                            <<"SOT ", IntStr(combined_sot), ", shots ", IntStr(combined_shots)>>)
                ELSE Rec(S.over_2_5, S.UNDER_2p5, 45),
                IF combined_shots >= 8 \/ combined_sot >= 3
                THEN Rec(S.over_1_5, S.OVER_1p5, 70)
                ELSE Rec(S.over_1_5, S.UNDER_1p5, 40),
                IF combined_sot >= 7 \/ combined_shots >= 18
                THEN Rec(S.over_3_5, S.OVER_3p5, 65)
                ELSE Rec(S.over_3_5, S.UNDER_3p5, 45),
                IF x.h_sot >= 2 /\ x.a_sot >= 2
                THEN Rec(S.btts, S.SIM, 80)
                ELSE IF (x.h_shots >= 5 /\ x.a_shots >= 3) \/ (x.a_shots >= 5 /\ x.h_shots >= 3)
                THEN Rec(S.btts, S.SIM, 60)
                ELSE Rec(S.btts, S.NAO, 45) >>

\* "Half time goals / corners"
RulesHalfTime_sba(x) ==
    LET combined_corners_ht == x.h_corners_ht + x.a_corners_ht
    IN  (IF combined_corners_ht >= 3
         THEN << RecWhy(S.corners_ht_over, S.OVER_4p5, 65,
                        <<"1H corners ", IntStr(combined_corners_ht)>>) >>
         ELSE <<>>)
        \o (IF x.h_shots + x.a_shots >= 5
            THEN << Rec(S.over_2_5_ht, S.OVER_1p0, 60) >>
            ELSE <<>>)

\* "Asian & European handicaps" and "HT/FT suggestions"
RulesHandicap_sba(x) ==
    (IF x.power_diff >= 500 THEN << Rec(S.asian_handicap_home, x.home_name \o S.sp_m1p0, 70) >>
     ELSE IF x.power_diff >= 300 THEN << Rec(S.asian_handicap_home, x.home_name \o S.sp_m0p5, 60) >>
     ELSE <<>>)
    \o (IF x.power_diff <= -500 THEN << Rec(S.asian_handicap_away, x.away_name \o S.sp_m1p0, 70) >>
        ELSE IF x.power_diff <= -300 THEN << Rec(S.asian_handicap_away, x.away_name \o S.sp_m0p5, 60) >>
        ELSE <<>>)
    \o (IF x.power_diff >= 400 THEN << Rec(S.handicap_european, x.home_name \o S.sp_m1, 60) >>
        ELSE IF x.power_diff <= -400 THEN << Rec(S.handicap_european, x.away_name \o S.sp_m1, 60) >>
        ELSE <<>>)
    \o (IF StrongHome(x.power_diff) /\ x.total_goals = 0
        THEN << Rec(S.ht_ft, x.home_name \o S.sp_slash \o x.home_name, 70) >>
        ELSE IF StrongAway(x.power_diff) /\ x.total_goals = 0
        THEN << Rec(S.ht_ft, x.away_name \o S.sp_slash \o x.away_name, 70) >>
        ELSE <<>>)

\* "Corners fulltime", "Asian corners" and "Cards"
RulesCornersCards_sba(x) ==
    LET total_corners == x.h_corners + x.a_corners
        total_cards == x.h_yellow + x.a_yellow
    IN  (IF x.is_pregame
         THEN << RecWhy(S.corners_ft_over, S.OVER_9p5, 60, <<"Média histórica de escanteios">>) >>
         ELSE IF total_corners >= 7
         THEN << RecWhy(S.corners_ft_over, S.OVER_9p5, 70, <<"Corners ", IntStr(total_corners)>>) >>
         ELSE << Rec(S.corners_ft_under, S.UNDER_9p5, 45) >>)
        \o (IF x.h_corners - x.a_corners >= 2
            THEN << Rec(S.corners_asian_ft, x.home_name \o S.sp_m1p5, 65) >>
            ELSE IF x.a_corners - x.h_corners >= 2
            THEN << Rec(S.corners_asian_ft, x.away_name \o S.sp_m1p5, 65) >>
            ELSE <<>>)
        \o (IF x.is_pregame
            THEN << RecWhy(S.cards_over, S.OVER_3p5, 55, <<"Tendência média de cartões pré-jogo">>) >>
            ELSE IF total_cards >= 2
            THEN << Rec(S.cards_over, S.OVER_3p5, 60) >>
            ELSE << Rec(S.cards_over, S.UNDER_3p5, 45) >>)

\* every add(...) of the function, in the order of the calls
Emit_sba(x) ==
    RulesPower_sba(x) \o RulesDnb_sba(x) \o RulesGoals_sba(x) \o RulesHalfTime_sba(x)
    \o RulesHandicap_sba(x) \o RulesCornersCards_sba(x)

\* "Deduplica previsões": the first occurrence of a (market, recommendation) stays
RECURSIVE DedupFrom(_, _)
DedupFrom(rest, kept) ==
    IF rest = <<>> THEN kept
    ELSE LET p == Head(rest)
             seen == \E i \in 1..Len(kept) :
                         /\ kept[i].market = p.market
                         /\ kept[i].recommendation = p.recommendation
         IN  DedupFrom(Tail(rest), IF seen THEN kept ELSE Append(kept, p))

RECURSIVE DedupKeepLast(_)
DedupKeepLast(ps) ==
    IF ps = <<>> THEN <<>>
    ELSE LET p == Head(ps)
             later == \E i \in 2..Len(ps) :
                          /\ ps[i].market = p.market
                          /\ ps[i].recommendation = p.recommendation
         IN  IF later THEN DedupKeepLast(Tail(ps)) ELSE <<p>> \o DedupKeepLast(Tail(ps))

Dedup(ps) == DedupFrom(ps, <<>>)

Finish_sba(x, emitted) ==
    [preds |-> SortDesc(Dedup(emitted)),
     summary |-> [home_team |-> x.home_name, away_team |-> x.away_name,
                  home_power |-> x.h_power, away_power |-> x.a_power,
                  combined_shots |-> x.h_shots + x.a_shots,
                  combined_sot |-> x.h_sot + x.a_sot,
                  combined_corners |-> x.h_corners + x.a_corners,
                  total_goals |-> x.total_goals]]

\* returns [preds, summary]
heuristics_football_sba(fixture_raw, smap) ==
    LET x == Locals_sba(fixture_raw, smap) IN Finish_sba(x, Emit_sba(x))

(***************************************************************************)
(* Odds feed                                                               *)
(*   a book is [name |-> J, bets |-> <<[name |-> str,                      *)
(*   values |-> <<[value |-> J, odd |-> J], ...>>], ...>>]; each module    *)
(*   reads the list of books at its own place of the payload:              *)
(*   tipster  odds_raw["response"][i], name under "bookmaker"              *)
(*   sba      odds_raw["response"][0]["bookmakers"][i]                     *)
(***************************************************************************)
PREFERRED_BOOKMAKERS == <<S.bet365, S.betano, S.superbet, S.pinnacle>>

OddsPayload_tipster(books) ==
    [response |-> [i \in 1..Len(books) |->
                      [bookmaker |-> [name |-> books[i].name], bets |-> books[i].bets]]]

OddsPayload_sba(books) ==
    IF books = <<>> THEN [response |-> <<>>]
    ELSE [response |-> << [bookmakers |-> books] >>]

\* every (bookmaker, market name, value, odd) of a list of tipster
\* bookmaker_data, in the order of the three nested loops
RECURSIVE QuotesOfValues(_, _, _)
QuotesOfValues(name, market_name, values) ==
    IF values = <<>> THEN <<>>
    ELSE << [bookmaker |-> name, market_name |-> market_name,
             value |-> Head(values).value, odd |-> Head(values).odd] >>
         \o QuotesOfValues(name, market_name, Tail(values))

RECURSIVE QuotesOfBets(_, _)
QuotesOfBets(name, bets) ==
    IF bets = <<>> THEN <<>>
    ELSE QuotesOfValues(name, Head(bets).name, Head(bets).values)
         \o QuotesOfBets(name, Tail(bets))

RECURSIVE QuotesOfBooks(_)
QuotesOfBooks(response) ==
    IF response = <<>> THEN <<>>
    ELSE QuotesOfBets(Head(response).bookmaker.name, Head(response).bets)
         \o QuotesOfBooks(Tail(response))

\* f"{a}:{b}" and f"{a} {b}"
ColonKey(a, b) == a \o <<":">> \o b
SpaceKey(a, b) == a \o <<" ">> \o b

InPreferred(name) == \E i \in 1..Len(PREFERRED_BOOKMAKERS) : PREFERRED_BOOKMAKERS[i] = name

\* the replacement test of best_odds_map
BetterQuoteFirstWins(best, key, odd, is_preferred) ==
    \/ key \notin DOMAIN best
    \/ odd > best[key].odd
BetterQuote(best, key, odd, is_preferred) ==
    \/ key \notin DOMAIN best
    \/ odd > best[key].odd
    \/ (odd = best[key].odd /\ is_preferred > best[key].is_preferred)

\* the loop that fills best_odds_map
RECURSIVE BestOddsFrom(_, _)
BestOddsFrom(quotes, best) ==
    IF quotes = <<>> THEN best
    ELSE LET q == Head(quotes)
             bookmaker_name == Lower(q.bookmaker.v)
             key == ColonKey(q.market_name, PyStr(q.value))
             odd == safe_float(q.odd)
             is_preferred == IF InPreferred(bookmaker_name) THEN 1 ELSE 0
         IN  BestOddsFrom(Tail(quotes),
                 IF BetterQuote(best, key, odd, is_preferred)
                 THEN DictSet(best, key, [odd |-> odd,
                                          bookmaker |-> Capitalize(bookmaker_name),
                                          is_preferred |-> is_preferred])
                 ELSE best)

\* a bookmaker whose name is null makes .lower() raise inside the try block
LowerRaises(response) == \E i \in 1..Len(response) : response[i].bookmaker.name.t # "str"

\* [ok, map]: ok is FALSE when the except clause was taken
best_odds_map_tipster(response) ==
    IF LowerRaises(response) THEN [ok |-> FALSE, map |-> EmptyDict]
    ELSE [ok |-> TRUE, map |-> BestOddsFrom(QuotesOfBooks(response), EmptyDict)]

market_map_tipster ==
    << <<ColonKey(S.Resultado_Final, S.Vitoria_Casa), ColonKey(S.Match_Winner, S.Home)>>,
       <<ColonKey(S.Resultado_Final, S.Vitoria_Visitante), ColonKey(S.Match_Winner, S.Away)>>,
       <<ColonKey(S.Resultado_Final, S.Empate), ColonKey(S.Match_Winner, S.Draw)>>,
       <<ColonKey(S.Dupla_Chance, S.Casa_ou_Empate), ColonKey(S.Double_Chance, S.Home_Draw)>>,
       <<ColonKey(S.Dupla_Chance, S.Fora_ou_Empate), ColonKey(S.Double_Chance, S.Away_Draw)>>,
       <<ColonKey(S.Ambas_Marcam, S.Sim), ColonKey(S.Both_Teams_to_Score, S.Yes)>>,
       <<ColonKey(S.Ambas_Marcam, S.Nao_tilde), ColonKey(S.Both_Teams_to_Score, S.No)>>,
       <<ColonKey(S.Total_de_Gols, S.Mais_de), ColonKey(S.Over_Under, S.Over)>>,
       <<ColonKey(S.Total_de_Gols, S.Menos_de), ColonKey(S.Over_Under, S.Under)>>,
       <<ColonKey(S.Escanteios_Asiaticos, S.Mais_de), ColonKey(S.Asian_Corners, S.Over)>>,
       <<ColonKey(S.Escanteios_Asiaticos, S.Menos_de), ColonKey(S.Asian_Corners, S.Under)>>,
       <<ColonKey(S.Handicap_Asiatico, S.Casa), ColonKey(S.Asian_Handicap, S.Home)>>,
       <<ColonKey(S.Handicap_Asiatico, S.Visitante), ColonKey(S.Asian_Handicap, S.Away)>> >>

\* market_map.get(key): the mapped provider key, or <<>> for None
MarketMapGet_tipster(key) ==
    IF \E i \in 1..Len(market_map_tipster) : market_map_tipster[i][1] = key
    THEN market_map_tipster[CHOOSE i \in 1..Len(market_map_tipster) :
                                market_map_tipster[i][1] = key][2]
    ELSE <<>>

\* the provider key looked up for one prediction, <<>> when the market is unmapped
ProviderKey_tipster(pred) ==
    LET rec == pred.recommendation
        market_base == pred.market
    IN  IF \E kw \in {S.Mais_de, S.Menos_de, S.m0p5, S.plus0p5} : Contains(rec, kw)
        THEN LET parts == SplitOn(rec, " ")
                 value == parts[Len(parts)]
                 key_part_base == IF market_base = S.Handicap_Asiatico THEN parts[1]
                                  ELSE Join(SubSeq(parts, 1, Len(parts) - 1), <<" ">>)
                 api_market_base == MarketMapGet_tipster(ColonKey(market_base, key_part_base))
             IN  IF api_market_base = <<>> THEN <<>> ELSE SpaceKey(api_market_base, value)
        ELSE MarketMapGet_tipster(ColonKey(market_base, rec))

\* pred.setdefault("best_odd", None); pred.setdefault("best_book", None)
SetDefaults(pred) ==
    [k \in DOMAIN pred \cup {"best_odd", "best_book"} |->
        IF k \in DOMAIN pred THEN pred[k] ELSE JNull]

AttachOddsAnyKey(pred, best) ==
    IF best # EmptyDict
    THEN LET key == CHOOSE k \in DOMAIN best : TRUE
         IN  [pred EXCEPT !.best_odd = JNum(best[key].odd),
                          !.best_book = JStr(best[key].bookmaker)]
    ELSE pred
AttachOdds_tipster(pred, best) ==
    LET key == ProviderKey_tipster(pred)
    IN  IF key # <<>> /\ key \in DOMAIN best
        THEN [pred EXCEPT !.best_odd = JNum(best[key].odd),
                          !.best_book = JStr(best[key].bookmaker)]
        ELSE pred

\* enhance_predictions_with_odds, given what api_get_raw("odds") returned
enhance_predictions_with_odds_sorted(predictions, raw) ==
    SortDesc(Dedup([i \in 1..Len(predictions) |-> SetDefaults(predictions[i])]))
enhance_predictions_with_odds(predictions, raw) ==
    LET defaulted == [i \in 1..Len(predictions) |-> SetDefaults(predictions[i])]
    IN  IF IsNoResponse(raw) \/ raw.response = <<>> THEN defaulted
        ELSE LET b == best_odds_map_tipster(raw.response)
             IN  IF ~b.ok THEN defaulted
                 ELSE [i \in 1..Len(defaulted) |-> AttachOdds_tipster(defaulted[i], b.map)]

(***************************************************************************)
(* sba: build_book_odds_map and enhance_predictions_with_preferred_odds    *)
(***************************************************************************)
\* float(odd), else float(str(odd).replace(',', '.')), else 0.0
OddFloat_sba(odd) ==
    CASE odd.t = "num" -> odd.v
      [] odd.t = "int" -> 100 * odd.v
      [] odd.t = "str" -> IF IsDecLiteral(odd.v) THEN DecLiteralHundredths(odd.v)
                          ELSE safe_float(odd)
      [] OTHER -> 0

\* str(raw_val).strip() if raw_val is not None else ""
ValueKey_sba(raw_val) == IF raw_val.t = "null" THEN <<>> ELSE Strip(PyStr(raw_val))

RECURSIVE BookMapValues(_, _, _)
BookMapValues(bet_name, values, out) ==
    IF values = <<>> THEN out
    ELSE BookMapValues(bet_name, Tail(values),
             DictSet(out, <<Strip(bet_name), ValueKey_sba(Head(values).value)>>,
                     OddFloat_sba(Head(values).odd)))

RECURSIVE BookMapBets(_, _)
BookMapBets(bets, out) ==
    IF bets = <<>> THEN out
    ELSE BookMapBets(Tail(bets), BookMapValues(Head(bets).name, Head(bets).values, out))

build_book_odds_map(bookmaker) == BookMapBets(bookmaker.bets, EmptyDict)

\* (b.get("name") or "").lower() contains one of the preferred names
IsPreferredBook_sba(b) ==
    LET name == Lower(StrOrEmpty(b.name))
    IN  \E i \in 1..Len(PREFERRED_BOOKMAKERS) : Contains(name, PREFERRED_BOOKMAKERS[i])

\* conv_contains(rec, *opts) for a non-empty rec
conv_contains(rec, opts) == \E o \in opts : Contains(Lower(rec), Lower(o))

\* market_map[market]["names"], <<>> when the market has no entry
MarketNames_sba(market) ==
    CASE market = S.moneyline -> <<S.Match_Winner, S.Match_Result, S.n1X2>>
      [] market = S.dnb -> <<S.Draw_No_Bet, S.Draw_No_Bet_FT, S.DNB>>
      [] market = S.double_chance -> <<S.Double_Chance>>
      [] market \in {S.over_2_5, S.over_1_5, S.over_3_5} -> <<S.Goals_Over_Under, S.Over_Under>>
      [] market = S.over_2_5_ht -> <<S.Half_time_Goals_Over_Under, S.Goals_Over_Under_1st_Half>>
      [] market = S.btts -> <<S.Both_Teams_To_Score, S.Both_Teams_To_ScoreQ>>
      [] market \in {S.asian_handicap_home, S.asian_handicap_away}
             -> <<S.Asian_Handicap, S.Asian_Handicap_Match>>
      [] market = S.handicap_european -> <<S.European_Handicap, S.Handicap>>
      [] market = S.ht_ft -> <<S.Half_Time_Full_Time, S.HT_FT>>
      [] market \in {S.corners_ft_over, S.corners_ft_under} -> <<S.Corners_Over_Under, S.Corners_Total>>
      [] market = S.corners_ht_over -> <<S.n1st_Half_Corners, S.Corners_Over_Under_1st_Half>>
      [] market = S.corners_asian_ft -> <<S.Asian_Corners, S.Corners_Asian_Handicap>>
      [] market = S.cards_over -> <<S.Cards_Over_Under, S.Total_Cards>>
      [] OTHER -> <<>>

\* str(rec).split()[-1] if "-" in str(rec) else None
LastWordIfDash(rec) ==
    IF Contains(rec, S.dash) THEN LET w == SplitWs(rec) IN w[Len(w)] ELSE <<>>

\* market_map[market]["convert"](rec); <<>> stands for None
Convert_sba(market, rec) ==
    LET low == Lower(rec)
        has(n) == Contains(low, n)
    IN  CASE market = S.moneyline ->
                 IF rec # <<>> /\ conv_contains(rec, {S.casa, S.home, S.vitoria_casa, S.n1}) THEN S.Home
                 ELSE IF rec # <<>> /\ conv_contains(rec, {S.fora, S.away, S.vitoria_visitante, S.n2}) THEN S.Away
                 ELSE <<>>
          [] market = S.dnb ->
                 IF rec # <<>> /\ conv_contains(rec, {S.casa, S.home}) THEN S.Home
                 ELSE IF rec # <<>> /\ conv_contains(rec, {S.fora, S.away}) THEN S.Away
                 ELSE <<>>
          [] market = S.double_chance ->
                 IF (rec # <<>> /\ conv_contains(rec, {S.casa, S.home})) \/ has(S.casa_ou_empate)
                 THEN S.Home_Draw
                 ELSE IF (rec # <<>> /\ conv_contains(rec, {S.fora, S.away})) \/ has(S.fora_ou_empate)
                 THEN S.Away_Draw
                 ELSE <<>>
          [] market = S.over_2_5 ->
                 IF has(S.over) \/ has(S.over_2p5) \/ has(S.over2p5) THEN S.Over_2p5
                 ELSE IF has(S.under) THEN S.Under_2p5 ELSE <<>>
          [] market = S.over_1_5 ->
                 IF has(S.over_1p5) \/ (has(S.over) /\ Contains(rec, S.n1p5)) THEN S.Over_1p5
                 ELSE IF has(S.under) THEN S.Under_1p5 ELSE <<>>
          [] market = S.over_3_5 ->
                 IF has(S.over) /\ Contains(rec, S.n3p5) THEN S.Over_3p5
                 ELSE IF has(S.under) THEN S.Under_3p5 ELSE <<>>
          [] market = S.over_2_5_ht ->
                 IF has(S.over) THEN S.Over_1p0
                 ELSE IF has(S.under) THEN S.Under_1p0 ELSE <<>>
          [] market = S.btts ->
                 IF rec # <<>> /\ conv_contains(rec, {S.sim, S.yes}) THEN S.Yes
                 ELSE IF rec # <<>> /\ conv_contains(rec, {S.nao_tilde, S.nao, S.no}) THEN S.No
                 ELSE <<>>
          [] market \in {S.asian_handicap_home, S.asian_handicap_away,
                         S.handicap_european, S.corners_asian_ft} -> LastWordIfDash(rec)
          [] market = S.ht_ft -> rec
          [] market = S.corners_ft_over ->
                 IF has(S.over) /\ Contains(rec, S.n9p5) THEN S.Over_9p5
                 ELSE IF has(S.under) THEN S.Under_9p5 ELSE <<>>
          [] market = S.corners_ft_under ->
                 IF has(S.under) /\ Contains(rec, S.n9p5) THEN S.Under_9p5
                 ELSE IF has(S.over) THEN S.Over_9p5 ELSE <<>>
          [] market = S.corners_ht_over ->
                 IF has(S.over) /\ Contains(rec, S.n4p5) THEN S.Over_4p5 ELSE <<>>
          [] market = S.cards_over ->
                 IF has(S.over) THEN S.Over_3p5
                 ELSE IF has(S.under) THEN S.Under_3p5 ELSE <<>>
          [] OTHER -> <<>>

\* the loops over preferred_books and mapping["names"]: [best_odd, best_book, best_market_name]
RECURSIVE BestOverNames(_, _, _, _, _)
BestOverNames(book, book_map, names, api_val, best) ==
    IF names = <<>> THEN best
    ELSE LET odd == DictGet(book_map, <<Head(names), api_val>>, 0)
         IN  BestOverNames(book, book_map, Tail(names), api_val,
                 IF odd # 0 /\ odd > best.best_odd
                 THEN [best_odd |-> odd, best_book |-> book.name, best_market_name |-> Head(names)]
                 ELSE best)

RECURSIVE BestOverBooks(_, _, _, _)
BestOverBooks(books, names, api_val, best) ==
    IF books = <<>> THEN best
    ELSE BestOverBooks(Tail(books), names, api_val,
             BestOverNames(Head(books), build_book_odds_map(Head(books)), names, api_val, best))

EnhanceOne_sba(pred, preferred_books) ==
    LET names == MarketNames_sba(pred.market)
        api_val == IF names = <<>> THEN <<>> ELSE Convert_sba(pred.market, pred.recommendation)
        best == BestOverBooks(preferred_books, names, api_val,
                              [best_odd |-> 0, best_book |-> JNull, best_market_name |-> <<>>])
    IN  IF names = <<>> \/ api_val = <<>> \/ best.best_odd <= 0 THEN pred
        ELSE [k \in DOMAIN pred \cup {"best_odd", "bookmaker", "market_name_found"} |->
                 CASE k = "best_odd" -> JNum(best.best_odd)
                   [] k = "bookmaker" -> best.best_book
                   [] k = "market_name_found" -> JStr(best.best_market_name)
                   [] OTHER -> pred[k]]

\* enhance_predictions_with_preferred_odds
enhance_predictions_with_preferred_odds(predictions, raw) ==
    IF IsNoResponse(raw) \/ raw.response = <<>> THEN predictions
    ELSE LET bookmakers == raw.response[1].bookmakers
             preferred_books == SelectSeq(bookmakers, IsPreferredBook_sba)
         IN  IF preferred_books = <<>> THEN predictions
             ELSE SortDesc(Dedup([i \in 1..Len(predictions) |->
                                     EnhanceOne_sba(predictions[i], preferred_books)]))

(***************************************************************************)
(* Upstream responses the model draws from                                 *)
(***************************************************************************)
Variants == {"tipster", "sba"}

HomeId == 1
AwayId == 2

FixtureRecord(elapsed, home_goals, away_goals) ==
    [ teams |-> [home |-> [id |-> HomeId, name |-> S.Ajax],
                 away |-> [id |-> AwayId, name |-> S.Roma]],
      status |-> [elapsed |-> elapsed],
      goals |-> [home |-> home_goals, away |-> away_goals] ]

\* a fixture not started, and one in its 30th minute at 0-0 or 1-0
Fixtures ==
    {FixtureRecord(JNull, JNull, JNull)}
    \cup {FixtureRecord(JInt(30), JInt(hg), JInt(0)) : hg \in {0, 1}}

\* what api_get_raw("fixtures") can return
FixtureResponses ==
    {NoResponse, [response |-> <<>>]} \cup {[response |-> <<f>>] : f \in Fixtures}

SotRaw == {JNull, JInt(2), JInt(5), JInt(10)}
ShotsRaw == {JNull, JInt(10)}
CornersRaw == {JInt(0), JInt(4)}
YellowRaw == {JNull, JInt(2)}

TeamItem(id, sot, shots, corners, yellow, possession) ==
    [ team |-> [id |-> JInt(id)],
      statistics |-> << [type |-> JStr(S.Shots_on_Goal), value |-> sot],
                        [type |-> JStr(S.Total_Shots), value |-> shots],
                        [type |-> JStr(S.Corner_Kicks), value |-> corners],
                        [type |-> JStr(S.Ball_Possession), value |-> JStr(possession)],
                        [type |-> JStr(S.Yellow_Cards), value |-> yellow] >> ]

\* the away side is never booked in the modelled payloads
TeamItems(id, possession) ==
    {TeamItem(id, sot, shots, corners, yellow, possession) :
        sot \in SotRaw, shots \in ShotsRaw, corners \in CornersRaw,
        yellow \in IF id = HomeId THEN YellowRaw ELSE {JNull}}

\* what api_get_raw("fixtures/statistics") can return
StatisticsResponses ==
    {NoResponse, [response |-> <<>>]}
    \cup {[response |-> <<h, a>>] : h \in TeamItems(HomeId, S.n57pct), a \in TeamItems(AwayId, S.n43pct)}

\* bookmakers of the modelled feeds: a preferred one, one outside the
\* preferred list, and a record whose name is null
BookNames == {JStr(S.Bet365), JStr(S.n1xBet)}
QuoteKeys == {<<S.Match_Winner, S.Home>>, <<S.Over_Under, S.Over_1p5>>}
\* the odd of a quote as the feed writes it
QuoteOdds == {JStr(S.n1p50), JStr(S.n2p00)}

Book(name, key, odd) ==
    [name |-> name, bets |-> << [name |-> key[1], values |-> << [value |-> JStr(key[2]), odd |-> odd] >>] >>]

\* every bookmaker with every quote, a preferred bookmaker whose odd does not
\* parse ("abc"), and a bookmaker record whose name is null
Books ==
    {Book(n, k, o) : n \in BookNames, k \in QuoteKeys, o \in QuoteOdds}
    \cup {Book(JStr(S.Bet365), <<S.Match_Winner, S.Home>>, JStr(S.abc)),
          Book(JNull, <<S.Match_Winner, S.Home>>, JStr(S.n2p00))}

\* lists of at most n books
RECURSIVE BookLists(_)
BookLists(n) ==
    IF n = 0 THEN {<<>>}
    ELSE LET shorter == BookLists(n - 1)
         IN  shorter \cup {Append(l, b) : l \in {x \in shorter : Len(x) = n - 1}, b \in Books}

\* what api_get_raw("odds") can return for the book lists ls, as variant v reads it
OddsResponses(v, ls) ==
    {NoResponse} \cup {IF v = "tipster" THEN OddsPayload_tipster(l) ELSE OddsPayload_sba(l) :
                          l \in ls}

\* the feeds of the pipeline: no answer, no book, or one book
AnalyzeBookLists ==
    { <<>>,
      << Book(JStr(S.Bet365), <<S.Match_Winner, S.Home>>, JStr(S.n2p00)) >>,
      << Book(JStr(S.n1xBet), <<S.Over_Under, S.Over_1p5>>, JStr(S.n1p50)) >>,
      << Book(JNull, <<S.Match_Winner, S.Home>>, JStr(S.n2p00)) >> }

(***************************************************************************)
(* analyze(game_id), step by step                                          *)
(***************************************************************************)
\* a local that is not assigned yet
Nothing == [t |-> "unset"]

Init ==
    /\ variant \in Variants
    /\ pc = "start"
    /\ fixture = Nothing
    /\ stats_raw = Nothing
    /\ stats_map = EmptyDict
    /\ preds = <<>>
    /\ summary = Nothing
    /\ odds_raw = Nothing
    /\ enhanced = <<>>
    /\ result = Nothing
    /\ radar_data = Nothing
    /\ tips = <<>>
    /\ cache = EmptyDict
    /\ now = 0
    /\ last_set = EmptyDict
    /\ events_raw = Nothing
    /\ requests = 0
    /\ callers = EmptyDict
    /\ USER_STATE = EmptyDict
    /\ META_VERIFY_TOKEN = JNull

\* fixture_data = api_get_raw("fixtures", ...); tipster returns None when the
\* record is missing, sba raises HTTPException 502 (no answer) or 404 (empty)
FetchFixture ==
    /\ pc = "start"
    /\ \E fixture_data \in FixtureResponses :
          IF IsNoResponse(fixture_data)
          THEN /\ pc' = "done"
               /\ result' = (IF variant = "tipster" THEN [returned |-> "None"]
                             ELSE [raised |-> 502])
               /\ UNCHANGED fixture
          ELSE IF fixture_data.response = <<>>
          THEN /\ pc' = "done"
               /\ result' = (IF variant = "tipster" THEN [returned |-> "None"]
                             ELSE [raised |-> 404])
               /\ UNCHANGED fixture
          ELSE /\ pc' = "fixture"
               /\ fixture' = fixture_data.response[1]
               /\ UNCHANGED result
    /\ UNCHANGED <<variant, stats_raw, stats_map, preds, summary, odds_raw, enhanced>>
    /\ UNCHANGED <<liveVars, cacheVars, upstreamVars, webVars>>

\* stats_raw = fetch_football_statistics(game_id); stats_map = build_stats_map(stats_raw)
FetchStatistics ==
    /\ pc = "fixture"
    /\ \E r \in StatisticsResponses :
          /\ stats_raw' = r
          /\ stats_map' = (IF variant = "tipster" THEN build_stats_map_tipster(r)
                           ELSE IF IsNoResponse(r) THEN EmptyDict
                           ELSE build_stats_map_sba(r))
    /\ pc' = "stats"
    /\ UNCHANGED <<variant, fixture, preds, summary, odds_raw, enhanced, result>>
    /\ UNCHANGED <<liveVars, cacheVars, upstreamVars, webVars>>

\* preds, summary = heuristics_football(fixture, stats_map)
RunHeuristics ==
    /\ pc = "stats"
    /\ LET h == IF variant = "tipster" THEN heuristics_football_tipster(fixture, stats_map)
                ELSE heuristics_football_sba(fixture, stats_map)
       IN  /\ preds' = h.preds
           /\ summary' = h.summary
    /\ pc' = "preds"
    /\ UNCHANGED <<variant, fixture, stats_raw, stats_map, odds_raw, enhanced, result>>
    /\ UNCHANGED <<liveVars, cacheVars, upstreamVars, webVars>>

\* enhance_predictions_with_odds(preds, game_id)                          (tipster)
\* enhance_predictions_with_preferred_odds(preds, api_get_raw("odds"))     (sba)
EnhanceWith(raw) ==
    IF variant = "tipster" THEN enhance_predictions_with_odds(preds, raw)
    ELSE enhance_predictions_with_preferred_odds(preds, raw)

\* while len(top3) < 3: top3.append(neutral pick)                          (tipster)
RECURSIVE PadTop3(_)
PadTop3(top3) ==
    IF Len(top3) >= 3 THEN top3
    ELSE PadTop3(Append(top3, Rec(S.Resultado_Final, S.Sem_favorito_definido, 30)))

\* top3 = enhanced[:3]
Top3Two(enh) == Take(enh, 2)
Top3(enh) == IF variant = "tipster" THEN PadTop3(Take(enh, 3)) ELSE Take(enh, 3)

\* the rest of analyze: the odds lookup, the enrichment, top3 and the returned
\* object. tipster writes into the dicts of preds, so preds and enhanced are
\* one list; sba returns its argument when it has no preferred bookmaker to read
EnhanceAndReturn ==
    /\ pc = "preds"
    /\ \E r \in OddsResponses(variant, AnalyzeBookLists) :
          /\ odds_raw' = r
          /\ enhanced' = EnhanceWith(r)
    /\ preds' = (IF variant = "tipster" THEN enhanced' ELSE preds)
    /\ result' = [returned |-> "analysis", summary |-> summary,
                  predictions |-> enhanced', top3 |-> Top3(enhanced')]
    /\ pc' = "done"
    /\ UNCHANGED <<variant, fixture, stats_raw, stats_map, summary>>
    /\ UNCHANGED <<liveVars, cacheVars, upstreamVars, webVars>>

Next == FetchFixture \/ FetchStatistics \/ RunHeuristics \/ EnhanceAndReturn

Spec == Init /\ [][Next]_vars

(***************************************************************************)
(* The enrichment functions on arbitrary recommendation lists              *)
(***************************************************************************)
MaxPreds == 2
MaxBooks == 2

\* recommendations a caller may pass: mapped and unmapped markets, and one
\* (market, recommendation) pair at two confidences
PredPool(v) ==
    IF v = "tipster"
    THEN { RecWhy(S.Resultado_Final, S.Vitoria_Casa, 75, <<"a">>),
           RecWhy(S.Total_de_Gols, S.Mais_de_1p5, 65, <<"b">>),
           RecWhy(S.Total_de_Gols, S.Mais_de_1p5, 45, <<"c">>),
           RecWhy(S.Resultado_Final, S.Sem_favorito_definido, 80, <<"d">>) }
    ELSE { RecWhy(S.moneyline, S.Vitoria_Casa, 85, <<"a">>),
           Rec(S.over_1_5, S.OVER_1p5, 65),
           RecWhy(S.over_1_5, S.OVER_1p5, 70, <<"c">>),
           Rec(S.moneyline, S.Sem_favorito_definido, 90) }

RECURSIVE PredLists(_, _)
PredLists(v, n) ==
    IF n = 0 THEN {<<>>}
    ELSE LET shorter == PredLists(v, n - 1)
         IN  shorter \cup {Append(l, p) : l \in {x \in shorter : Len(x) = n - 1}, p \in PredPool(v)}

InitEnrich ==
    /\ variant \in Variants
    /\ pc = "preds"
    /\ preds \in PredLists(variant, MaxPreds)
    /\ fixture = Nothing
    /\ stats_raw = Nothing
    /\ stats_map = EmptyDict
    /\ summary = Nothing
    /\ odds_raw = Nothing
    /\ enhanced = <<>>
    /\ result = Nothing
    /\ radar_data = Nothing
    /\ tips = <<>>
    /\ cache = EmptyDict
    /\ now = 0
    /\ last_set = EmptyDict
    /\ events_raw = Nothing
    /\ requests = 0
    /\ callers = EmptyDict
    /\ USER_STATE = EmptyDict
    /\ META_VERIFY_TOKEN = JNull

\* one call of the variant's enrichment function on preds
EnrichAny ==
    /\ pc = "preds"
    /\ \E r \in OddsResponses(variant, BookLists(MaxBooks)) :
          /\ odds_raw' = r
          /\ enhanced' = EnhanceWith(r)
    /\ preds' = (IF variant = "tipster" THEN enhanced' ELSE preds)
    /\ pc' = "enhanced"
    /\ UNCHANGED <<variant, fixture, stats_raw, stats_map, summary, result>>
    /\ UNCHANGED <<liveVars, cacheVars, upstreamVars, webVars>>

NextEnrich == EnrichAny

SpecEnrich == InitEnrich /\ [][NextEnrich]_vars

(***************************************************************************)
(* Properties of the pre-match engine (specification Spec)                 *)
(***************************************************************************)
\* the list heuristics_football returned is in preds from pc = "preds" on
HeuristicsReturned == pc = "preds"

PowerDiff == summary.home_power - summary.away_power

NonIncreasing(ps) == \A i \in 1..(Len(ps) - 1) : ps[i].confidence >= ps[i + 1].confidence

NoDuplicatePairs(ps) ==
    \A i, j \in 1..Len(ps) :
        (ps[i].market = ps[j].market /\ ps[i].recommendation = ps[j].recommendation) => i = j

\* C1 as stated: heuristics_football returns exactly 3 recommendations for
\* every fixture and every statistics map. The sba engine returns every
\* deduplicated pick, so this fails there.
C1_ExactlyThree == HeuristicsReturned => Len(preds) = 3

\* C1 amended: heuristics_football returns at least 3 recommendations for
\* every fixture and statistics map (the empty map included); the tipster
\* engine returns exactly 3.
C1_AtLeastThree ==
    HeuristicsReturned =>
        /\ Len(preds) >= 3
        /\ variant = "tipster" => Len(preds) = 3

\* the tipster engine has returned 3 picks for an empty statistics map,
\* one of them a conservative pad
C1_Witness ==
    /\ HeuristicsReturned
    /\ variant = "tipster"
    /\ stats_map = EmptyDict
    /\ Len(preds) = 3
    /\ \E i \in 1..3 : preds[i].reason = <<"Sugestão conservadora">>

\* C2: the list heuristics_football returns is ordered by confidence,
\* non-increasing, also when conservative padding picks were appended.
C2_SortedByConfidence == HeuristicsReturned => NonIncreasing(preds)

\* a returned list that ends in a padding pick below a rule-driven one
C2_Witness ==
    /\ HeuristicsReturned
    /\ variant = "tipster"
    /\ preds[3].reason = <<"Sugestão conservadora">>
    /\ preds[1].confidence > preds[2].confidence
    /\ preds[2].confidence > preds[3].confidence

\* C3: no two returned recommendations share a (market, recommendation)
\* pair, and of a pair the rules emit more than once the first emitted
\* occurrence is the one returned (the draw-no-bet pick of the |power_diff| > 6
\* rule at 0.70, not the one of the |power_diff| >= 3 rule at 0.65).
C3_FirstOccurrenceKept ==
    HeuristicsReturned =>
        /\ NoDuplicatePairs(preds)
        /\ variant = "sba" =>
              LET emitted == Emit_sba(Locals_sba(fixture, stats_map))
              IN  \A i \in 1..Len(preds) :
                     LET first == CHOOSE k \in 1..Len(emitted) :
                                     /\ emitted[k].market = preds[i].market
                                     /\ emitted[k].recommendation = preds[i].recommendation
                                     /\ \A j \in 1..(k - 1) :
                                           ~(/\ emitted[j].market = preds[i].market
                                             /\ emitted[j].recommendation = preds[i].recommendation)
                     IN  preds[i] = emitted[first]

\* the sba rules emitted the home draw-no-bet pick twice and the 0.70 one is returned
C3_Witness ==
    /\ HeuristicsReturned
    /\ variant = "sba"
    /\ PowerDiff > 600
    /\ Len(Emit_sba(Locals_sba(fixture, stats_map))) > Len(preds)
    /\ \E i \in 1..Len(preds) : preds[i] = Rec(S.dnb, S.Casa_DNB, 70)

(***************************************************************************)
(* Properties of the enrichment functions                                  *)
(***************************************************************************)
EnrichmentReturned == pc = "enhanced"

\* after is before, element by element, with nothing changed and only the keys added
SameListPlus(before, after, added) ==
    /\ Len(after) = Len(before)
    /\ \A i \in 1..Len(before) :
          /\ DOMAIN before[i] \subseteq DOMAIN after[i]
          /\ \A k \in DOMAIN before[i] : after[i][k] = before[i][k]
          /\ (DOMAIN after[i] \ DOMAIN before[i]) \subseteq added

\* every element of after is an element of before with only the keys added
EachExtendsOne(before, after, added) ==
    \A i \in 1..Len(after) : \E j \in 1..Len(before) :
        SameListPlus(<<before[j]>>, <<after[i]>>, added)

\* C4 as stated: for every input list the enriched list has the length and
\* the order of the input, every field of a recommendation is unchanged and
\* only best_odd and best_book are added. The sba enrichment drops duplicates,
\* sorts again and adds bookmaker and market_name_found, so this fails there.
C4_SameListEveryInput ==
    [][(pc = "preds" /\ pc' = "enhanced")
          => SameListPlus(preds, enhanced', {"best_odd", "best_book"})]_vars

\* C4 amended: the tipster enrichment returns the input list, same length and
\* order, for every input, adding only best_odd and best_book; the sba
\* enrichment does so for an input without duplicate pairs that is sorted by
\* confidence, and for every input each returned element is an input element
\* to which only best_odd, bookmaker and market_name_found were added.
C4_SameListTipsterSortedSba ==
    [][(pc = "preds" /\ pc' = "enhanced") =>
          IF variant = "tipster"
          THEN SameListPlus(preds, enhanced', {"best_odd", "best_book"})
          ELSE /\ EachExtendsOne(preds, enhanced', {"best_odd", "bookmaker", "market_name_found"})
               /\ (NoDuplicatePairs(preds) /\ NonIncreasing(preds))
                     => SameListPlus(preds, enhanced',
                                     {"best_odd", "bookmaker", "market_name_found"})]_vars

\* the tipster enrichment has returned an unsorted list of one pair at two
\* confidences, in the order given, with a quote attached to both
C4_Witness ==
    /\ EnrichmentReturned
    /\ variant = "tipster"
    /\ Len(enhanced) = 2
    /\ enhanced[1].market = enhanced[2].market
    /\ enhanced[1].recommendation = enhanced[2].recommendation
    /\ enhanced[1].confidence < enhanced[2].confidence
    /\ enhanced[1].reason = <<"c">>
    /\ enhanced[1].best_odd # JNull
    /\ enhanced[2].best_odd # JNull

\* the bookmakers of the odds response as [name, bets] records, in feed order
FeedBooks ==
    IF IsNoResponse(odds_raw) \/ odds_raw.response = <<>> THEN <<>>
    ELSE IF variant = "tipster"
    THEN [i \in 1..Len(odds_raw.response) |->
             [name |-> odds_raw.response[i].bookmaker.name, bets |-> odds_raw.response[i].bets]]
    ELSE odds_raw.response[1].bookmakers

\* every quote of the odds response: who quotes which selection of which market, and the odd
FeedQuotes ==
    UNION { UNION { { [book |-> FeedBooks[i].name,
                       market |-> FeedBooks[i].bets[j].name,
                       value |-> PyStr(FeedBooks[i].bets[j].values[k].value),
                       odd |-> FeedBooks[i].bets[j].values[k].odd] :
                         k \in 1..Len(FeedBooks[i].bets[j].values) } :
                    j \in 1..Len(FeedBooks[i].bets) } :
            i \in 1..Len(FeedBooks) }

\* the price of a quote as the variant parses it, in hundredths
Price(q) == IF variant = "tipster" THEN safe_float(q.odd) ELSE OddFloat_sba(q.odd)

PreferredName(name) ==
    /\ name.t = "str"
    /\ \E i \in 1..Len(PREFERRED_BOOKMAKERS) : Contains(Lower(name.v), PREFERRED_BOOKMAKERS[i])

\* quote q is an entry for the selection that recommendation p translates to
Matches(p, q) ==
    IF variant = "tipster"
    THEN /\ ProviderKey_tipster(p) # <<>>
         /\ ColonKey(q.market, q.value) = ProviderKey_tipster(p)
    ELSE LET names == MarketNames_sba(p.market)
         IN  /\ names # <<>>
             /\ Convert_sba(p.market, p.recommendation) # <<>>
             /\ Strip(q.value) = Convert_sba(p.market, p.recommendation)
             /\ \E n \in 1..Len(names) : names[n] = Strip(q.market)

\* p["best_odd"] and p["best_book"] as a reader of the returned object gets
\* them: a key that is not there reads as null
BestOdd(p) == IF "best_odd" \in DOMAIN p THEN p.best_odd ELSE JNull
BestBook(p) == IF "best_book" \in DOMAIN p THEN p.best_book ELSE JNull

\* what heuristics_football returned in this run of analyze
HeuristicsOutput ==
    IF variant = "tipster" THEN heuristics_football_tipster(fixture, stats_map).preds
    ELSE heuristics_football_sba(fixture, stats_map).preds

AnalyzeReturned == pc = "done" /\ fixture # Nothing

\* C5: analyze finishes without raising whatever the odds lookup gave, every
\* recommendation of the engine stays in the result, and one whose market has
\* no mapping or no matching entry in the odds response (a missing or empty
\* response included) has best_odd = null and best_book = null.
C5_NoOddsStaysNull ==
    AnalyzeReturned =>
        /\ "returned" \in DOMAIN result
        /\ result.returned = "analysis"
        /\ Len(result.predictions) = Len(HeuristicsOutput)
        /\ \A i \in 1..Len(HeuristicsOutput) :
              LET p == HeuristicsOutput[i]
                  r == result.predictions[i]
              IN  /\ r.market = p.market
                  /\ r.recommendation = p.recommendation
                  /\ r.confidence = p.confidence
                  /\ (\A q \in FeedQuotes : ~Matches(p, q))
                        => (BestOdd(r) = JNull /\ BestBook(r) = JNull)

\* sba has run its lookup over a preferred bookmaker and returned a pick with
\* no translation ('Sem favorito definido') and a pick without a matching
\* entry, both without odds
C5_Witness ==
    /\ AnalyzeReturned
    /\ variant = "sba"
    /\ \E q \in FeedQuotes : PreferredName(q.book)
    /\ \E i, j \in 1..Len(result.predictions) :
          /\ result.predictions[i].recommendation = S.Sem_favorito_definido
          /\ Convert_sba(result.predictions[i].market, S.Sem_favorito_definido) = <<>>
          /\ BestOdd(result.predictions[i]) = JNull
          /\ result.predictions[j].market = S.over_1_5
          /\ BestOdd(result.predictions[j]) = JNull

Max(xs) == CHOOSE x \in xs : \A y \in xs : y <= x

Attached(p) == BestOdd(p) # JNull

AttachedBook(p) == IF variant = "tipster" THEN p.best_book ELSE p.bookmaker

\* the name a bookmaker is reported under
ReportedName(name) ==
    IF variant = "tipster" THEN JStr(Capitalize(Lower(name.v))) ELSE name

\* p carries the highest price among the quotes qs, from a bookmaker that
\* quotes it, and from a preferred one when a preferred one quotes it
CarriesBestOf(p, qs) ==
    /\ qs # {}
    /\ LET top == Max({Price(q) : q \in qs})
       IN  /\ p.best_odd = JNum(top)
           /\ \E q \in qs : Price(q) = top /\ ReportedName(q.book) = AttachedBook(p)
           /\ (\E q \in qs : Price(q) = top /\ PreferredName(q.book))
                 => PreferredName(AttachedBook(p))

\* C6 as stated: the quote enrichment attaches is the highest price among all
\* bookmakers of the response, a preferred bookmaker winning a tie. The sba
\* enrichment reads the preferred bookmakers only, so this fails there.
C6_BestOfAllBooks ==
    EnrichmentReturned =>
        \A i \in 1..Len(enhanced) :
            Attached(enhanced[i])
               => CarriesBestOf(enhanced[i], {q \in FeedQuotes : Matches(enhanced[i], q)})

\* C6 amended: the tipster enrichment attaches the highest price among all
\* bookmakers of the response, a preferred bookmaker winning a tie whatever
\* the order of the bookmakers; the sba enrichment attaches the highest price
\* among the preferred bookmakers of the response.
C6_BestOfAllTipsterPreferredSba ==
    EnrichmentReturned =>
        \A i \in 1..Len(enhanced) :
            Attached(enhanced[i])
               => CarriesBestOf(enhanced[i],
                      {q \in FeedQuotes :
                          /\ Matches(enhanced[i], q)
                          /\ variant = "sba" => PreferredName(q.book)})

\* a price tie in the tipster lookup with the preferred bookmaker second in
\* the response, and the preferred bookmaker attached
C6_Witness ==
    /\ EnrichmentReturned
    /\ variant = "tipster"
    /\ Len(FeedBooks) = 2
    /\ FeedBooks[1].name = JStr(S.n1xBet)
    /\ FeedBooks[2].name = JStr(S.Bet365)
    /\ \E i \in 1..Len(enhanced) :
          /\ enhanced[i].best_odd = JNum(200)
          /\ enhanced[i].best_book = JStr(S.Bet365)
          /\ \A b \in 1..2 : \E q \in FeedQuotes :
                /\ q.book = FeedBooks[b].name
                /\ Matches(enhanced[i], q)
                /\ Price(q) = 200

(***************************************************************************)
(* Properties of the power-score rules and of analyze                      *)
(***************************************************************************)
Triple(p) == <<p.market, p.recommendation, p.confidence>>

Triples(ps) == [i \in 1..Len(ps) |-> Triple(ps[i])]

\* C7: at power_diff exactly 6.0 or exactly -6.0 no rule that tests
\* |power_diff| > 6 fires (no 0.85 moneyline, no 0.70 draw-no-bet, no 0.60
\* double chance from that rule, no HT/FT pick), and the list returned is the
\* list returned for the same statistics with power_diff just below 6.
C7_ThresholdIsStrict ==
    (HeuristicsReturned /\ variant = "sba") =>
        LET x == Locals_sba(fixture, stats_map)
            below == [x EXCEPT !.power_diff = IF x.power_diff > 0 THEN 595 ELSE -595]
        IN  Abs(x.power_diff) = 600 =>
               /\ preds = Finish_sba(below, Emit_sba(below)).preds
               /\ \A i \in 1..Len(preds) :
                     /\ preds[i].market = S.moneyline => preds[i].confidence < 85
                     /\ preds[i].market = S.dnb => preds[i].confidence = 65
                     /\ preds[i].market # S.ht_ft

\* the sba engine has returned for power_diff = 6.0: the home draw-no-bet pick
\* of the |power_diff| >= 3 rule is there, the 0.85 moneyline is not
C7_Witness ==
    /\ HeuristicsReturned
    /\ variant = "sba"
    /\ Locals_sba(fixture, stats_map).power_diff = 600
    /\ \E i \in 1..Len(preds) : Triple(preds[i]) = <<S.dnb, S.Casa_DNB, 65>>
    /\ \A i \in 1..Len(preds) : preds[i].recommendation # S.Vitoria_Casa

\* C8 as stated: with power_diff > 6 the first element is the 'Vitória Casa'
\* pick at confidence 0.85, with power_diff < -6 the 'Vitória Visitante' pick
\* at 0.85. The tipster engine gives its winner pick 0.75, so this fails there.
C8_WinnerFirstAt85 ==
    HeuristicsReturned =>
        /\ PowerDiff > 600 =>
              (preds[1].recommendation = S.Vitoria_Casa /\ preds[1].confidence = 85)
        /\ PowerDiff < -600 =>
              (preds[1].recommendation = S.Vitoria_Visitante /\ preds[1].confidence = 85)

\* C8 amended: in the sba engine power_diff > 6 puts moneyline 'Vitória Casa'
\* at 0.85 first and power_diff < -6 moneyline 'Vitória Visitante' at 0.85; in
\* the tipster engine the threshold is 5 and the first element is 'Resultado
\* Final' 'Vitória Casa' (or 'Vitória Visitante') at 0.75.
C8_WinnerFirst ==
    HeuristicsReturned =>
        IF variant = "sba"
        THEN /\ PowerDiff > 600 => Triple(preds[1]) = <<S.moneyline, S.Vitoria_Casa, 85>>
             /\ PowerDiff < -600 => Triple(preds[1]) = <<S.moneyline, S.Vitoria_Visitante, 85>>
        ELSE /\ PowerDiff > 500 => Triple(preds[1]) = <<S.Resultado_Final, S.Vitoria_Casa, 75>>
             /\ PowerDiff < -500 => Triple(preds[1]) = <<S.Resultado_Final, S.Vitoria_Visitante, 75>>

\* shots on target 10 against 2 and nothing else apart: power_diff 12.8 in
\* the sba engine, and the 0.85 home win first
C8_Witness ==
    /\ HeuristicsReturned
    /\ variant = "sba"
    /\ Locals_sba(fixture, stats_map).h_sot = 10
    /\ Locals_sba(fixture, stats_map).a_sot = 2
    /\ PowerDiff = 1280
    /\ Triple(preds[1]) = <<S.moneyline, S.Vitoria_Casa, 85>>

\* a fixture not started for which the engine reads 0 shots on target and 0
\* total shots on both sides
ZeroShotsPreMatch ==
    /\ fixture.status.elapsed = JNull
    /\ \A id \in {fixture.teams.home.id, fixture.teams.away.id} :
          LET st == DictGet(stats_map, id, EmptyDict)
          IN  /\ g_sba(st, <<S.Shots_on_Goal, S.Shots_on_Target>>) = 0
              /\ g_sba(st, <<S.Total_Shots, S.Shots>>) = 0

\* C9 as stated: for such a fixture the engine returns 3 recommendations, all
\* at confidence 0.45 or less, one of them 'Sem favorito definido'. The rule
\* driven picks are above 0.45 in both engines, so this fails.
C9_ThreeLowWithNoFavourite ==
    (HeuristicsReturned /\ ZeroShotsPreMatch) =>
        /\ Len(preds) = 3
        /\ \A i \in 1..Len(preds) : preds[i].confidence <= 45
        /\ \E i \in 1..Len(preds) : preds[i].recommendation = S.Sem_favorito_definido

\* C9 amended: for such a fixture the tipster engine returns exactly 'Menos de
\* 2.5' at 0.60, 'Casa ou Empate' at 0.50 and the pad 'Ambas Marcam: Sim' at
\* 0.40, without 'Sem favorito definido'; the sba engine returns at least 6
\* picks, none above 0.65, one of them moneyline 'Sem favorito definido' at 0.35.
C9_ZeroShotsResult ==
    (HeuristicsReturned /\ ZeroShotsPreMatch) =>
        IF variant = "tipster"
        THEN Triples(preds) = << <<S.Total_de_Gols, S.Menos_de_2p5, 60>>,
                                 <<S.Dupla_Chance, S.Casa_ou_Empate, 50>>,
                                 <<S.Ambas_Marcam, S.Sim, 40>> >>
        ELSE /\ Len(preds) >= 6
             /\ \A i \in 1..Len(preds) : preds[i].confidence <= 65
             /\ \E i \in 1..Len(preds) :
                   Triple(preds[i]) = <<S.moneyline, S.Sem_favorito_definido, 35>>

\* the tipster engine has returned for a statistics payload that names both
\* sides and has no shot for either
C9_Witness ==
    /\ HeuristicsReturned
    /\ ZeroShotsPreMatch
    /\ variant = "tipster"
    /\ DOMAIN stats_map = {HomeId, AwayId}
    /\ preds[3].reason = <<"Sugestão conservadora">>
    /\ Len(preds) = 3

NoFixtureFound == pc = "done" /\ fixture = Nothing

\* C11: when the provider is unreachable or has no matching fixture, analyze
\* returns null and no exception escapes to the caller.
C11_NullAndNoException == NoFixtureFound => result = [returned |-> "None"]

\* ---------------------------------------------------------------------------
\* The memo cache: _cache, _cache_get, _cache_set
\* ---------------------------------------------------------------------------

CACHE_TTL == 8
\* the clock stops here
MaxClock == 10

\* keys the fetchers build and values they store
CacheKeys == {"radar_stats_1_full", "radar_stats_2_full"}
CacheValues ==
    { [t |-> "list", v |-> <<>>],
      [t |-> "list", v |-> <<JInt(1)>>],
      [t |-> "dict", v |-> [response |-> <<>>]] }

InitCache ==
    /\ variant \in {"tipster", "sba", "radar"}
    /\ pc = "cache"
    /\ fixture = Nothing
    /\ stats_raw = Nothing
    /\ stats_map = EmptyDict
    /\ preds = <<>>
    /\ summary = Nothing
    /\ odds_raw = Nothing
    /\ enhanced = <<>>
    /\ result = Nothing
    /\ radar_data = Nothing
    /\ tips = <<>>
    /\ cache = EmptyDict
    /\ now = 0
    /\ last_set = EmptyDict
    /\ events_raw = Nothing
    /\ requests = 0
    /\ callers = EmptyDict
    /\ USER_STATE = EmptyDict
    /\ META_VERIFY_TOKEN = JNull

\* _cache_set(key, data)
CacheSet ==
    \E key \in CacheKeys, data \in CacheValues :
        /\ cache' = DictSet(cache, key, [ts |-> now, data |-> data])
        /\ last_set' = DictSet(last_set, key, [at |-> now, value |-> data])
        /\ result' = [op |-> "set", key |-> key, returned |-> JNull]
        /\ UNCHANGED <<variant, pc, analysisVars, liveVars, now, upstreamVars, webVars>>

\* a lookup that never expires an entry
CacheGetNoExpiry ==
    \E key \in CacheKeys :
        /\ cache' = cache
        /\ result' = [op |-> "get", key |-> key,
                      returned |-> IF key \in DOMAIN cache THEN cache[key].data ELSE JNull]
        /\ UNCHANGED <<variant, pc, analysisVars, liveVars, now, last_set, upstreamVars, webVars>>

\* a lookup that takes stored data that is falsy for a miss
CacheGetTruthy ==
    \E key \in CacheKeys :
        LET rec == DictGet(cache, key, Nothing)
            expired == rec # Nothing /\ now - rec.ts > CACHE_TTL
            hit == rec # Nothing /\ ~expired /\ rec.data # [t |-> "list", v |-> <<>>]
        IN  /\ cache' = IF expired THEN [x \in DOMAIN cache \ {key} |-> cache[x]] ELSE cache
            /\ result' = [op |-> "get", key |-> key,
                          returned |-> IF hit THEN rec.data ELSE JNull]
            /\ UNCHANGED <<variant, pc, analysisVars, liveVars, now, last_set, upstreamVars, webVars>>

\* _cache_get(key)
CacheGet ==
    \E key \in CacheKeys :
        LET rec == DictGet(cache, key, Nothing)
            \* rec is the stored {"ts", "data"} dict, never falsy when present
            expired == rec # Nothing /\ now - rec.ts > CACHE_TTL
        IN  /\ cache' = IF expired THEN [x \in DOMAIN cache \ {key} |-> cache[x]] ELSE cache
            /\ result' = [op |-> "get", key |-> key,
                          returned |-> IF rec = Nothing \/ expired THEN JNull ELSE rec.data]
            /\ UNCHANGED <<variant, pc, analysisVars, liveVars, now, last_set, upstreamVars, webVars>>

\* time.time() advances between calls
Tick ==
    /\ now < MaxClock
    /\ now' = now + 1
    /\ result' = [op |-> "tick", key |-> "", returned |-> JNull]
    /\ UNCHANGED <<variant, pc, analysisVars, liveVars, cache, last_set, upstreamVars, webVars>>

NextCache == CacheSet \/ CacheGet \/ Tick

SpecCache == InitCache /\ [][NextCache]_vars

\* the step is a _cache_get of key k
IsGetOf(k) == result'.op = "get" /\ result'.key = k /\ <<cache, result>> # <<cache', result'>>

\* the last _cache_set of key k is at most CACHE_TTL old
SetWithinTTL(k) == k \in DOMAIN last_set /\ now - last_set[k].at <= CACHE_TTL

\* C12: after set(k, v), every get(k) made while the time since that set is
\* within the TTL returns v, for every stored value (the empty list too) and
\* whatever get and set operations on other keys come in between.
C12_RoundTrip ==
    [][\A k \in CacheKeys :
          (IsGetOf(k) /\ SetWithinTTL(k)) => result'.returned = last_set[k].value]_vars

\* an empty list stored for one key is returned after the other key was set and
\* looked up and CACHE_TTL seconds have passed
C12_Witness ==
    /\ pc = "cache"
    /\ result = [op |-> "get", key |-> "radar_stats_1_full", returned |-> [t |-> "list", v |-> <<>>]]
    /\ "radar_stats_2_full" \in DOMAIN cache
    /\ "radar_stats_1_full" \in DOMAIN last_set
    /\ now - last_set["radar_stats_1_full"].at = CACHE_TTL

\* the step is a _cache_set of key k
IsSetOf(k) == result'.op = "set" /\ result'.key = k /\ <<cache, result>> # <<cache', result'>>

\* C13: a get(k) made after the TTL has elapsed since the last set(k, v) returns
\* null and removes the entry of k; a set(k, w) stores w with the current time
\* whatever was stored before; and an entry leaves the store only in a lookup of
\* its own key made after its TTL.
C13_LazyExpiry ==
    [][\A k \in CacheKeys :
          /\ (IsGetOf(k) /\ k \in DOMAIN last_set /\ ~SetWithinTTL(k))
                => (result'.returned = JNull /\ k \notin DOMAIN cache')
          /\ IsSetOf(k)
                => (k \in DOMAIN cache' /\ cache'[k] = [ts |-> now, data |-> last_set'[k].value])
          /\ (k \in DOMAIN cache /\ k \notin DOMAIN cache')
                => (IsGetOf(k) /\ ~SetWithinTTL(k))]_vars

\* a lookup made CACHE_TTL + 1 seconds after the set has returned null and the
\* entry is gone, while the other key's younger entry is still stored
C13_Witness ==
    /\ pc = "cache"
    /\ result = [op |-> "get", key |-> "radar_stats_1_full", returned |-> JNull]
    /\ "radar_stats_1_full" \in DOMAIN last_set
    /\ now - last_set["radar_stats_1_full"].at = CACHE_TTL + 1
    /\ "radar_stats_1_full" \notin DOMAIN cache
    /\ "radar_stats_2_full" \in DOMAIN cache

\* ---------------------------------------------------------------------------
\* The statistics normalizers on loosely shaped payloads
\* ---------------------------------------------------------------------------

\* try_int: int(v) with a "%" removed from a str; 0 on ValueError, TypeError
try_int(v) ==
    CASE v.t = "int" -> v.v
      [] v.t = "num" -> TruncHundredths(v.v)
      [] v.t = "str" ->
            LET s == IF Contains(v.v, <<"%">>)
                     THEN Strip(SelectSeq(v.v, LAMBDA c : c # "%"))
                     ELSE Strip(v.v)
            IN  IF IsIntLiteral(s) THEN IntLiteralVal(s) ELSE 0
      [] OTHER -> 0

\* the full_stats dict of stats_aovivo: one map per side, keys lower-cased with
\* underscores, a record that is not the home team's goes to "away"
full_stats(home_id, stats_resp) ==
    LET items == IF IsNoResponse(stats_resp) \/ "response" \notin DOMAIN stats_resp
                 THEN <<>> ELSE stats_resp.response
        key(st) == ReplaceChar(Lower(Strip(StrOrEmpty(st.type))), " ", "_")
        tmp(item) ==
            LET st == item.statistics
                f[i \in 0..Len(st)] ==
                    IF i = 0 THEN EmptyDict
                    ELSE DictSet(f[i - 1], key(st[i]), try_int(st[i].value))
            IN  f[Len(st)]
        tid(item) == IF "team" \in DOMAIN item THEN DictGet(item.team, "id", JNull) ELSE JNull
        side(item) == IF tid(item) = JInt(home_id) THEN "home" ELSE "away"
        update(d, t) == [k \in DOMAIN d \cup DOMAIN t |-> IF k \in DOMAIN t THEN t[k] ELSE d[k]]
        F[i \in 0..Len(items)] ==
            IF i = 0 THEN [home |-> EmptyDict, away |-> EmptyDict]
            ELSE [F[i - 1] EXCEPT ![side(items[i])] = update(@, tmp(items[i]))]
    IN  F[Len(items)]

\* item.get("team", {}).get("id") on a record whose team is null: None has no
\* attribute get (tipster.build_stats_map and stats_aovivo; sba reads
\* item.get("team") or {})
team_get_raises(v, raw) ==
    /\ v \in {"tipster", "radar"}
    /\ ~IsNoResponse(raw)
    /\ "response" \in DOMAIN raw
    /\ \E i \in 1..Len(raw.response) :
          "team" \in DOMAIN raw.response[i] /\ raw.response[i].team = JNull

\* get_stat of the live engine, first definition: the first key present, a
\* falsy value read as 0
RECURSIVE get_stat_v1(_, _)
get_stat_v1(side_stats, keys) ==
    IF keys = <<>> THEN 0
    ELSE IF Head(keys) \in DOMAIN side_stats THEN side_stats[Head(keys)]
    ELSE get_stat_v1(side_stats, Tail(keys))

\* get_stat of the live engine, second definition: the first key present
RECURSIVE get_stat_v2(_, _)
get_stat_v2(side_stats, keys) ==
    IF keys = <<>> THEN 0
    ELSE IF Head(keys) \in DOMAIN side_stats THEN side_stats[Head(keys)]
    ELSE get_stat_v2(side_stats, Tail(keys))

\* statistics payloads: no response, no "response" key, an empty response, and
\* a home record (team present, absent or null; values int, null, numeric
\* string, percentage, unparsable; both spellings of the total-shots label)
\* followed by a fixed away record
StatsPayloads ==
    LET stats(sot, shots_label, possession) ==
            << [type |-> JStr(S.Shots_on_Goal), value |-> sot],
               [type |-> JStr(shots_label), value |-> JInt(12)],
               [type |-> JStr(S.Ball_Possession), value |-> possession] >>
        homes == { stats(sot, l, p) :
                     sot \in {JNull, JInt(0), JInt(5), JStr(S.n12), JStr(S.abc)},
                     l \in {S.Total_Shots, S.Total_shots},
                     p \in {JStr(S.n57pct), JInt(57), JNull} }
        away == [team |-> [id |-> JInt(AwayId)],
                 statistics |-> stats(JInt(3), S.Total_Shots, JStr(S.n43pct))]
    IN  {NoResponse, [errors |-> <<>>], [response |-> <<>>]}
        \cup {[response |-> <<[team |-> t, statistics |-> st], away>>] :
                 t \in {[id |-> JInt(HomeId)], JNull}, st \in homes}
        \cup {[response |-> <<[statistics |-> st], away>>] : st \in homes}

InitStats ==
    /\ variant \in {"tipster", "sba", "radar"}
    /\ pc = "raw"
    /\ fixture = FixtureRecord(JInt(30), JInt(0), JInt(0))
    /\ stats_raw \in StatsPayloads
    /\ stats_map = EmptyDict
    /\ preds = <<>>
    /\ summary = Nothing
    /\ odds_raw = Nothing
    /\ enhanced = <<>>
    /\ result = Nothing
    /\ radar_data = Nothing
    /\ tips = <<>>
    /\ cache = EmptyDict
    /\ now = 0
    /\ last_set = EmptyDict
    /\ events_raw = Nothing
    /\ requests = 0
    /\ callers = EmptyDict
    /\ USER_STATE = EmptyDict
    /\ META_VERIFY_TOKEN = JNull

\* build_stats_map(stats_raw), and the statistics loop of stats_aovivo whose
\* try block turns any exception into the return value None
NormalizeStats ==
    /\ pc = "raw"
    /\ IF team_get_raises(variant, stats_raw)
       THEN /\ pc' = "done"
            /\ result' = IF variant = "radar" THEN [returned |-> "None"]
                         ELSE [raised |-> "AttributeError"]
            /\ UNCHANGED stats_map
       ELSE /\ pc' = "normalized"
            /\ stats_map' = CASE variant = "tipster" -> build_stats_map_tipster(stats_raw)
                              [] variant = "sba" -> build_stats_map_sba(stats_raw)
                              [] variant = "radar" -> full_stats(fixture.teams.home.id, stats_raw)
            /\ UNCHANGED result
    /\ UNCHANGED <<variant, fixture, stats_raw, preds, summary, odds_raw, enhanced>>
    /\ UNCHANGED <<liveVars, cacheVars, upstreamVars, webVars>>

\* the engine that is given the map reads its figures: heuristics_football,
\* or the locals of analyze_live_from_stats as bound at import
ReadStats ==
    /\ pc = "normalized"
    /\ pc' = "read"
    /\ summary' =
          CASE variant = "tipster" -> heuristics_football_tipster(fixture, stats_map).summary
            [] variant = "sba" -> Locals_sba(fixture, stats_map)
            [] variant = "radar" ->
                  [ home_shots_total |-> get_stat_v2(stats_map.home, <<S.total_shots, S.shots_total>>),
                    away_shots_total |-> get_stat_v2(stats_map.away, <<S.total_shots, S.shots_total>>),
                    home_shots_on |-> get_stat_v2(stats_map.home, <<S.shots_on_goal, S.shots_on_target>>),
                    away_shots_on |-> get_stat_v2(stats_map.away, <<S.shots_on_goal, S.shots_on_target>>),
                    home_corners |-> get_stat_v2(stats_map.home, <<S.corner_kicks, S.corners>>),
                    away_corners |-> get_stat_v2(stats_map.away, <<S.corner_kicks, S.corners>>) ]
    /\ UNCHANGED <<variant, fixture, stats_raw, stats_map, preds, odds_raw, enhanced, result>>
    /\ UNCHANGED <<liveVars, cacheVars, upstreamVars, webVars>>

NextStats == NormalizeStats \/ ReadStats

SpecStats == InitStats /\ [][NextStats]_vars

\* the raw labels a semantic key accepts in the map of the normalizer
SemanticLabels ==
    IF variant = "radar"
    THEN << <<S.shots_on_goal, S.shots_on_target>>, <<S.total_shots, S.shots_total>>,
            <<S.corner_kicks, S.corners>>, <<S.ball_possession>> >>
    ELSE << <<S.Shots_on_Goal, S.Shots_on_Target>>, <<S.Total_Shots, S.Shots>>,
            <<S.Corners, S.Corner_Kicks, S.Corner_Kicks_1H>>,
            <<S.Ball_Possession, S.Possession>>, <<S.Fouls>>, <<S.Yellow_Cards>> >>

\* the sides of the normalizer's output
Sides == IF variant = "radar" THEN {"home", "away"} ELSE {HomeId, AwayId}

\* C14: for every statistics payload (no response, records without a team,
\* null or unparsable values) the normalizer does not raise and returns for both
\* sides a map in which every semantic key is present, 0 where not supplied.
C14_CompleteMapNeverRaises ==
    /\ (pc = "done" /\ result # Nothing) => "raised" \notin DOMAIN result
    /\ pc \in {"normalized", "read"} =>
          \A side \in Sides :
              /\ side \in DOMAIN stats_map
              /\ \A i \in 1..Len(SemanticLabels) :
                    \E j \in 1..Len(SemanticLabels[i]) :
                        SemanticLabels[i][j] \in DOMAIN stats_map[side]

\* the payload has a home record with its team, and that record's raw values
HomeRecordGiven ==
    /\ ~IsNoResponse(stats_raw)
    /\ "response" \in DOMAIN stats_raw
    /\ stats_raw.response # <<>>
    /\ "team" \in DOMAIN stats_raw.response[1]
    /\ stats_raw.response[1].team = [id |-> JInt(HomeId)]
RawHome(i) == stats_raw.response[1].statistics[i].value

\* the home side's map in the output of the normalizer
HomeMap ==
    IF variant = "radar" THEN stats_map.home ELSE DictGet(stats_map, HomeId, EmptyDict)

\* the coercion as stated: an int is itself, a numeric string its integer, a
\* percentage string the integer before the "%", anything else 0
StatedCoercion(v) ==
    CASE v.t = "int" -> v.v
      [] v.t = "str" /\ AllDigits(v.v) -> DigitsVal(v.v)
      [] v.t = "str" /\ Len(v.v) > 1 /\ v.v[Len(v.v)] = "%" /\ AllDigits(SubSeq(v.v, 1, Len(v.v) - 1))
            -> DigitsVal(SubSeq(v.v, 1, Len(v.v) - 1))
      [] OTHER -> 0

\* C17: value coercion turns a numeric string into its integer, "57%" into 57
\* and an unparsable or null value into 0; in particular the possession that
\* reaches the power-score formula for a raw "57%" is 57.
C17_CoercionOfValues ==
    (pc = "read" /\ HomeRecordGiven) =>
        /\ HomeMap[IF variant = "radar" THEN S.shots_on_goal ELSE S.Shots_on_Goal]
              = StatedCoercion(RawHome(1))
        /\ HomeMap[IF variant = "radar" THEN S.ball_possession ELSE S.Ball_Possession]
              = StatedCoercion(RawHome(3))
        /\ variant = "sba" => summary.h_pos = StatedCoercion(RawHome(3))

\* the value of the first label of the list that is a key of the map, 0 when
\* none is
FirstPresent(d, labels) ==
    IF \E i \in 1..Len(labels) : labels[i] \in DOMAIN d
    THEN d[labels[CHOOSE i \in 1..Len(labels) :
                     /\ labels[i] \in DOMAIN d
                     /\ \A j \in 1..(i - 1) : labels[j] \notin DOMAIN d]]
    ELSE 0

\* C18: label resolution uses the value of the first label of the ordered list
\* that is present in the map, also when that value is 0; a later label is
\* never used when an earlier one is present, and only with none present is the
\* result 0.
C18_FirstPresentLabelWins ==
    pc = "read" =>
        CASE variant = "tipster" ->
                summary.home_power
                    = 150 * FirstPresent(HomeMap, <<S.Shots_on_Goal, S.Total_shots>>)
          [] variant = "sba" ->
                /\ summary.h_sot = FirstPresent(HomeMap, <<S.Shots_on_Goal, S.Shots_on_Target>>)
                /\ summary.h_shots = FirstPresent(HomeMap, <<S.Total_Shots, S.Shots>>)
          [] variant = "radar" ->
                /\ summary.home_shots_on
                      = FirstPresent(HomeMap, <<S.shots_on_goal, S.shots_on_target>>)
                /\ summary.home_shots_total
                      = FirstPresent(HomeMap, <<S.total_shots, S.shots_total>>)

\* ---------------------------------------------------------------------------
\* The live engine: the two definitions of analyze_live_from_stats in
\* tipster.py. The module binds the name to the second (lines 911-974) when it
\* is loaded; the first (lines 301-447) is replaced by it.
\* ---------------------------------------------------------------------------

\* f"{n + 0.5}" and its like: an integer followed by ".5"
PlusHalf(n) == IntStr(n) \o <<".", "5">>

\* a rule that waits for a minute of the match: elapsed > minute
AfterAlways(elapsed, minute) == TRUE
After(elapsed, minute) == elapsed > minute

\* if not tips: the fallback tip is added to an empty list only
AlwaysFallback(ruled, fallback) == ruled \o fallback
OrFallback(ruled, fallback) == IF ruled = <<>> THEN fallback ELSE ruled

\* estimate_extra_time(events, half), in minutes
estimate_extra_time(events, half) ==
    LET seconds(ev) ==
            LET minute == IF "time" \in DOMAIN ev THEN ev.time.elapsed ELSE 0
                cat == Lower(DictGet(ev, "category", <<>>))
            IN  IF (half = 1 /\ minute > 45) \/ (half = 2 /\ minute <= 45) THEN 0
                ELSE IF Contains(cat, <<"f", "a", "l", "t", "a">>) THEN 15
                ELSE IF Contains(cat, <<"a", "m", "a", "r", "e", "l", "o">>) THEN 30
                ELSE IF Contains(cat, <<"g", "o", "l">>) THEN 60
                ELSE IF Contains(cat, <<"v", "a", "r">>)
                     THEN IF "start_time" \in DOMAIN ev /\ "end_time" \in DOMAIN ev
                               /\ ev.start_time # 0 /\ ev.end_time # 0
                          THEN Max({ev.end_time - ev.start_time, 60})
                          ELSE 60
                ELSE 0
            total[i \in 0..Len(events)] ==
                IF i = 0 THEN 0 ELSE total[i - 1] + seconds(events[i])
    IN  (total[Len(events)] + 59) \div 60

\* first definition: returns every tip in the order the rules added them, and
\* writes extra_time_est into the record it was given
analyze_live_from_stats_v1(record) ==
    IF record = JNull
    THEN [tips |-> <<>>, radar_data |-> record, added |-> <<>>, goals |-> [home |-> 0, away |-> 0]]
    ELSE
    LET home_stats == record.statistics.home
        away_stats == record.statistics.away
        elapsed == record.status.elapsed
        score == IF "fixture" \in DOMAIN record /\ "goals" \in DOMAIN record.fixture
                 THEN record.fixture.goals ELSE [home |-> JNull, away |-> JNull]
        home_goals == IF Truthy(score.home) THEN score.home.v ELSE 0
        away_goals == IF Truthy(score.away) THEN score.away.v ELSE 0
        total_goals == home_goals + away_goals
        home_shots_total == get_stat_v1(home_stats, <<S.total_shots, S.shots_total, S.shots>>)
        away_shots_total == get_stat_v1(away_stats, <<S.total_shots, S.shots_total, S.shots>>)
        total_shots == home_shots_total + away_shots_total
        home_shots_on == get_stat_v1(home_stats, <<S.shots_on_target, S.shots_on, S.on_target, S.shots_on_goal>>)
        away_shots_on == get_stat_v1(away_stats, <<S.shots_on_target, S.shots_on, S.on_target, S.shots_on_goal>>)
        home_corners == get_stat_v1(home_stats, <<S.corner_kicks, S.corners, S.corner_kicks_full>>)
        away_corners == get_stat_v1(away_stats, <<S.corner_kicks, S.corners, S.corner_kicks_full>>)
        total_corners == home_corners + away_corners
        events == DictGet(record, "events", <<>>)
        marked == IF 80 <= elapsed /\ elapsed < 90
                  THEN [x \in DOMAIN record \cup {"extra_time_est"} |->
                           IF x = "extra_time_est"
                           THEN [half |-> 2, minutes |-> estimate_extra_time(events, 2)]
                           ELSE record[x]]
                  ELSE IF 35 <= elapsed /\ elapsed < 45
                  THEN [x \in DOMAIN record \cup {"extra_time_est"} |->
                           IF x = "extra_time_est"
                           THEN [half |-> 1, minutes |-> estimate_extra_time(events, 1)]
                           ELSE record[x]]
                  ELSE record
        goals == IF After(elapsed, 20)
                 THEN IF total_shots > 7 /\ total_goals < 2
                      THEN << RecWhy(S.Gols_Asiaticos, S.Mais_de \o <<" ">> \o PlusHalf(total_goals), 70,
                                     <<IntStr(total_shots), " remates totais">>) >>
                      ELSE IF total_shots < 3
                      THEN << RecWhy(S.Gols_Asiaticos, S.Menos_de \o <<" ">> \o PlusHalf(total_goals + 1), 65,
                                     <<"Apenas ", IntStr(total_shots), " remates">>) >>
                      ELSE <<>>
                 ELSE <<>>
        btts == IF home_shots_total > 3 /\ away_shots_total > 3 /\ total_goals < 3
                THEN << RecWhy(S.Ambas_Marcam, S.Sim, 75,
                               <<"Ambas as equipas rematam (", IntStr(home_shots_total), " vs ",
                                 IntStr(away_shots_total), ")">>) >>
                ELSE <<>>
        corners == IF After(elapsed, 25)
                   THEN IF total_corners >= 7
                        THEN << RecWhy(S.Escanteios_Asiaticos, S.Mais_de \o <<" ">> \o PlusHalf(total_corners + 1), 72,
                                       <<IntStr(total_corners), " escanteios já cobrados">>) >>
                        ELSE IF total_shots > 10 /\ total_corners < 5
                        THEN IF home_shots_total > away_shots_total
                             THEN << RecWhy(S.Escanteios_Equipe, S.Proximo_escanteio_Casa, 65,
                                            <<"Casa pressiona forte mas tem poucos cantos">>) >>
                             ELSE << RecWhy(S.Escanteios_Equipe, S.Proximo_escanteio_Visitante, 65,
                                            <<"Visitante pressiona forte mas tem poucos cantos">>) >>
                        ELSE <<>>
                   ELSE <<>>
        pressure == IF home_shots_total - away_shots_total >= 8 /\ home_shots_on >= 3
                    THEN << RecWhy(S.Resultado_Final, S.Vitoria_do_Time_da_Casa, 78,
                                   <<"Domínio ofensivo: ", IntStr(home_shots_total), " x ",
                                     IntStr(away_shots_total), " remates">>),
                            RecWhy(S.Proximo_Gol, S.Casa, 75,
                                   <<"Alta pressão ofensiva (", IntStr(home_shots_total), " remates, ",
                                     IntStr(home_shots_on), " no alvo)">>) >>
                    ELSE IF away_shots_total - home_shots_total >= 8 /\ away_shots_on >= 3
                    THEN << RecWhy(S.Resultado_Final, S.Vitoria_do_Time_Visitante, 78,
                                   <<"Domínio ofensivo: ", IntStr(away_shots_total), " x ",
                                     IntStr(home_shots_total), " remates">>),
                            RecWhy(S.Proximo_Gol, S.Visitante, 75,
                                   <<"Alta pressão ofensiva (", IntStr(away_shots_total), " remates, ",
                                     IntStr(away_shots_on), " no alvo)">>) >>
                    ELSE <<>>
        late == IF After(elapsed, 75)
                THEN IF total_goals = 0
                     THEN << RecWhy(S.Total_de_Gols, S.Menos_de_1p5, 85,
                                    <<"Poucos golos e pouco tempo restante">>) >>
                     ELSE IF home_goals > away_goals
                     THEN << RecWhy(S.Resultado_Final, S.Vitoria_do_Time_da_Casa, 70,
                                    <<"Time da casa a segurar o resultado">>) >>
                     ELSE <<>>
                ELSE <<>>
        ruled == goals \o btts \o corners \o pressure \o late
        fallback == IF total_shots >= 6
                    THEN << RecWhy(S.Total_de_Gols, S.Mais_de_1p5, 45,
                                   <<"Sugestão baseada na atividade de remates">>) >>
                    ELSE << RecWhy(S.Total_de_Gols, S.Menos_de_2p5, 40,
                                   <<"Sugestão conservadora devido a pouca atividade">>) >>
    \* added: the local list tips as add_tip left it
    \* goals: the locals home_goals and away_goals
    IN  [tips |-> OrFallback(ruled, fallback), radar_data |-> marked,
         added |-> OrFallback(ruled, fallback),
         goals |-> [home |-> home_goals, away |-> away_goals]]

\* second definition: the three tips of highest confidence; reads the score
\* from the record's own "goals" entry
analyze_live_from_stats_v2(record) ==
    IF record = JNull
    THEN [tips |-> <<>>, radar_data |-> record, added |-> <<>>, goals |-> [home |-> 0, away |-> 0]]
    ELSE
    LET home_stats == record.statistics.home
        away_stats == record.statistics.away
        elapsed == record.status.elapsed
        score == DictGet(record, "goals", EmptyDict)
        home_goals == IF "home" \in DOMAIN score THEN score.home.v ELSE 0
        away_goals == IF "away" \in DOMAIN score THEN score.away.v ELSE 0
        total_goals == home_goals + away_goals
        home_shots_total == get_stat_v2(home_stats, <<S.total_shots, S.shots_total>>)
        away_shots_total == get_stat_v2(away_stats, <<S.total_shots, S.shots_total>>)
        total_shots == home_shots_total + away_shots_total
        home_shots_on == get_stat_v2(home_stats, <<S.shots_on_goal, S.shots_on_target>>)
        away_shots_on == get_stat_v2(away_stats, <<S.shots_on_goal, S.shots_on_target>>)
        home_corners == get_stat_v2(home_stats, <<S.corner_kicks, S.corners>>)
        away_corners == get_stat_v2(away_stats, <<S.corner_kicks, S.corners>>)
        total_corners == home_corners + away_corners
        \* total_shots > elapsed / 7 and the like, cleared of the division
        goals == IF After(elapsed, 25) /\ elapsed < 80 /\ 7 * total_shots > elapsed /\ total_goals < 3
                 THEN << RecWhy(S.Total_de_Gols, S.Mais_de \o <<" ">> \o PlusHalf(total_goals), 75,
                                <<IntStr(total_shots), " remates, jogo aberto">>) >>
                 ELSE IF After(elapsed, 70) /\ 10 * total_shots < elapsed
                 THEN << RecWhy(S.Total_de_Gols, S.Menos_de \o <<" ">> \o PlusHalf(total_goals + 1), 70,
                                <<"Jogo com pouca criação">>) >>
                 ELSE <<>>
        corners == IF After(elapsed, 30) /\ elapsed < 85
                   THEN IF 8 * total_corners > elapsed + 16
                        THEN << RecWhy(S.Escanteios_Asiaticos, S.Mais_de \o <<" ">> \o PlusHalf(total_corners + 1), 68,
                                       <<"Média alta de cantos (", IntStr(total_corners), ")">>) >>
                        ELSE IF 15 * total_corners < elapsed /\ After(elapsed, 60)
                        THEN << RecWhy(S.Escanteios_Asiaticos, S.Menos_de \o <<" ">> \o PlusHalf(total_corners + 2), 65,
                                       <<"Média baixa de cantos (", IntStr(total_corners), ")">>) >>
                        ELSE <<>>
                   ELSE <<>>
        \* pressure_diff in hundredths
        pressure_diff == (home_shots_on * 150 + home_corners * 100)
                         - (away_shots_on * 150 + away_corners * 100)
        pressure == IF After(elapsed, 55) /\ elapsed < 88 /\ home_goals = away_goals
                    THEN IF pressure_diff > 400
                         THEN << RecWhy(S.Proximo_Gol, S.Casa, 72,
                                        <<"Casa pressionando mais (", Fmt1(pressure_diff), ")">>),
                                 RecWhy(S.Handicap_Asiatico, S.Casa_0p5, 68,
                                        <<"Casa dominante e busca o gol">>) >>
                         ELSE IF pressure_diff < -400
                         THEN << RecWhy(S.Proximo_Gol, S.Visitante, 72,
                                        <<"Visitante pressionando mais (", Fmt1(pressure_diff), ")">>),
                                 RecWhy(S.Handicap_Asiatico, S.Visitante_0p5, 68,
                                        <<"Visitante dominante e busca o gol">>) >>
                         ELSE <<>>
                    ELSE <<>>
        late == IF After(elapsed, 80)
                THEN IF home_goals > away_goals
                     THEN << RecWhy(S.Resultado_Final, S.Vitoria_Casa, 80,
                                    <<"Casa segurando o resultado">>) >>
                     ELSE IF away_goals > home_goals
                     THEN << RecWhy(S.Resultado_Final, S.Vitoria_Visitante, 80,
                                    <<"Visitante segurando o resultado">>) >>
                     ELSE <<>>
                ELSE <<>>
        ruled == goals \o corners \o pressure \o late
        fallback == << RecWhy(S.Analise, S.Aguardando_Oportunidade, 30,
                              <<"Nenhum mercado com valor claro no momento">>) >>
    \* added: the local list tips as add_tip left it, before sort and cut
    IN  [tips |-> Take(SortDesc(OrFallback(ruled, fallback)), 3),
         radar_data |-> record, added |-> OrFallback(ruled, fallback),
         goals |-> [home |-> home_goals, away |-> away_goals]]

\* live records: the keys stats_aovivo builds (fixture with the provider's
\* goals, status, statistics, events), with or without a "goals" entry of their
\* own, and None for a lookup that failed
LiveRecords ==
    LET side(shots, on, corners) ==
            (S.total_shots :> shots) @@ (S.shots_on_goal :> on) @@ (S.corner_kicks :> corners)
        record(elapsed, hg, ag, sh, on, co) ==
            [ fixture |-> [goals |-> [home |-> JInt(hg), away |-> JInt(ag)]],
              status |-> [elapsed |-> elapsed],
              statistics |-> [home |-> side(sh[1], on[1], co[1]),
                              away |-> side(sh[2], on[2], co[2])],
              events |-> <<>> ]
        bare == { record(e, sc[1], sc[2], sh, on, co) :
                    e \in {10, 19, 22, 40, 60, 72, 78, 85},
                    sc \in {<<0, 0>>, <<1, 0>>, <<0, 1>>},
                    sh \in {<<0, 0>>, <<2, 1>>, <<4, 4>>, <<15, 4>>, <<4, 15>>},
                    on \in {<<0, 0>>, <<5, 1>>},
                    co \in {<<0, 0>>, <<6, 1>>} }
    IN  {JNull} \cup bare
        \cup { [x \in DOMAIN r \cup {"goals"} |-> IF x = "goals" THEN r.fixture.goals ELSE r[x]] :
                 r \in bare }

InitLive ==
    \* "v1" runs the first definition of the engine, "v2" the second
    /\ variant \in {"v1", "v2"}
    /\ pc = "live"
    /\ fixture = Nothing
    /\ stats_raw = Nothing
    /\ stats_map = EmptyDict
    /\ preds = <<>>
    /\ summary = Nothing
    /\ odds_raw = Nothing
    /\ enhanced = <<>>
    /\ result = Nothing
    /\ radar_data \in LiveRecords
    /\ tips = <<>>
    /\ cache = EmptyDict
    /\ now = 0
    /\ last_set = EmptyDict
    /\ events_raw = Nothing
    /\ requests = 0
    /\ callers = EmptyDict
    /\ USER_STATE = EmptyDict
    /\ META_VERIFY_TOKEN = JNull

\* live_tips = analyze_live_from_stats(radar_data)
AnalyzeLive ==
    /\ pc = "live"
    /\ LET out == IF variant = "v1" THEN analyze_live_from_stats_v1(radar_data)
                  ELSE analyze_live_from_stats_v2(radar_data)
       IN  /\ tips' = out.tips
           /\ radar_data' = out.radar_data
    /\ pc' = "tips"
    /\ UNCHANGED <<variant, result, analysisVars, cacheVars, upstreamVars, webVars>>

SpecLive == InitLive /\ [][AnalyzeLive]_vars

\* the live engine has returned its tips for a record
LiveReturned == pc = "tips" /\ radar_data # JNull

\* the score of the match as the provider gave it in the fixture
HomeGoals == radar_data.fixture.goals.home.v
AwayGoals == radar_data.fixture.goals.away.v
Elapsed == radar_data.status.elapsed

\* some returned tip has this market and one of these recommendations
HasTip(market, recommendations) ==
    \E i \in 1..Len(tips) :
        tips[i].market = market /\ tips[i].recommendation \in recommendations

\* C15: with elapsed past 75 a scoreless match gets an 'under 1.5 total goals'
\* tip, and when either side leads a 'leading side to win' tip is given for
\* that side (as at minute 85 with the score 1-0 and shots 15 against 4).
C15_LateGameTips ==
    (LiveReturned /\ Elapsed > 75) =>
        /\ (HomeGoals = 0 /\ AwayGoals = 0) => HasTip(S.Total_de_Gols, {S.Menos_de_1p5})
        /\ HomeGoals > AwayGoals
              => HasTip(S.Resultado_Final, {S.Vitoria_Casa, S.Vitoria_do_Time_da_Casa})
        /\ AwayGoals > HomeGoals
              => HasTip(S.Resultado_Final, {S.Vitoria_Visitante, S.Vitoria_do_Time_Visitante})

\* the fallback tip of each definition
IsFallback(tip) ==
    IF variant = "v1"
    THEN /\ tip.market = S.Total_de_Gols
         /\ \/ tip.recommendation = S.Mais_de_1p5 /\ tip.confidence = 45
            \/ tip.recommendation = S.Menos_de_2p5 /\ tip.confidence = 40
    ELSE tip.market = S.Analise /\ tip.recommendation = S.Aguardando_Oportunidade
         /\ tip.confidence = 30

TotalShots ==
    radar_data.statistics.home[S.total_shots] + radar_data.statistics.away[S.total_shots]

\* C20 as stated: whenever no rule fires exactly one tip is returned, a
\* total-goals over/under tip chosen from the combined shot count with
\* confidence at most 0.45, and when a rule fires no fallback is in the list.
C20_TotalsFallback ==
    LiveReturned =>
        /\ Len(tips) >= 1
        /\ (\E i \in 1..Len(tips) : tips[i].confidence <= 45) =>
              /\ Len(tips) = 1
              /\ tips[1].market = S.Total_de_Gols
              /\ tips[1].recommendation
                    = IF TotalShots >= 6 THEN S.Mais_de_1p5 ELSE S.Menos_de_2p5

\* C20, amended: the list is never empty; it holds either rule tips only
\* (confidence 0.65 or more) or the fallback alone, which is the total-goals
\* tip chosen by the shot count (0.45 / 0.40) in the first definition and the
\* 'Análise: Aguardando Oportunidade' placeholder at 0.30 in the second.
C20_FallbackAloneByDefinition ==
    LiveReturned =>
        /\ Len(tips) >= 1
        /\ \/ \A i \in 1..Len(tips) : tips[i].confidence >= 65 /\ ~IsFallback(tips[i])
           \/ /\ Len(tips) = 1
              /\ IsFallback(tips[1])
              /\ variant = "v1" =>
                    tips[1].recommendation
                        = IF TotalShots >= 6 THEN S.Mais_de_1p5 ELSE S.Menos_de_2p5

\* minute 60 with three shots and no corner: no rule of the first definition
\* fires and the conservative total-goals tip is the whole list
C20_Witness ==
    /\ pc = "tips"
    /\ variant = "v1"
    /\ radar_data # JNull
    /\ Elapsed = 60
    /\ TotalShots = 3
    /\ tips = << RecWhy(S.Total_de_Gols, S.Menos_de_2p5, 40,
                        <<"Sugestão conservadora devido a pouca atividade">>) >>

\* ---------------------------------------------------------------------------
\* The pre-match engine called twice on the same arguments
\* ---------------------------------------------------------------------------

InitTwice ==
    /\ variant \in Variants
    /\ pc = "call"
    /\ fixture \in Fixtures
    /\ stats_raw \in StatisticsResponses
    /\ stats_map = IF variant = "tipster" THEN build_stats_map_tipster(stats_raw)
                   ELSE build_stats_map_sba(stats_raw)
    /\ preds = <<>>
    /\ summary = Nothing
    /\ odds_raw = Nothing
    /\ enhanced = <<>>
    /\ result = Nothing
    /\ radar_data = Nothing
    /\ tips = <<>>
    /\ cache = EmptyDict
    /\ now = 0
    /\ last_set = EmptyDict
    /\ events_raw = Nothing
    /\ requests = 0
    /\ callers = EmptyDict
    /\ USER_STATE = EmptyDict
    /\ META_VERIFY_TOKEN = JNull

\* an engine whose list of picks outlives the call
CallHeuristicsAccumulating ==
    /\ pc \in {"call", "called"}
    /\ LET h == IF variant = "tipster" THEN heuristics_football_tipster(fixture, stats_map)
                ELSE heuristics_football_sba(fixture, stats_map)
       IN  /\ preds' = preds \o h.preds
           /\ summary' = h.summary
    /\ pc' = IF pc = "call" THEN "called" ELSE "called_twice"
    /\ UNCHANGED <<variant, fixture, stats_raw, stats_map, odds_raw, enhanced, result>>
    /\ UNCHANGED <<liveVars, cacheVars, upstreamVars, webVars>>

\* preds, summary = heuristics_football(fixture, stats_map): the function
\* builds its list and its locals anew and assigns to neither argument nor to a
\* module-level name
CallHeuristics ==
    /\ pc \in {"call", "called"}
    /\ LET h == IF variant = "tipster" THEN heuristics_football_tipster(fixture, stats_map)
                ELSE heuristics_football_sba(fixture, stats_map)
       IN  /\ preds' = h.preds
           /\ summary' = h.summary
    /\ pc' = IF pc = "call" THEN "called" ELSE "called_twice"
    /\ UNCHANGED <<variant, fixture, stats_raw, stats_map, odds_raw, enhanced, result>>
    /\ UNCHANGED <<liveVars, cacheVars, upstreamVars, webVars>>

SpecTwice == InitTwice /\ [][CallHeuristics]_vars

Added ==
    IF variant = "v1" THEN analyze_live_from_stats_v1(radar_data).added
    ELSE analyze_live_from_stats_v2(radar_data).added

classify_event(ev) ==
    LET detail == Lower(StrOrEmpty(DictGet(ev, "detail", JNull)))
    IN  IF Contains(detail, <<"g", "o", "a", "l">>) THEN <<"G", "o", "l">>
        ELSE IF Contains(detail, <<"y", "e", "l", "l", "o", "w", " ", "c", "a", "r", "d">>)
             THEN <<"C", "a", "r", "t", "ã", "o", " ", "A", "m", "a", "r", "e", "l", "o">>
        ELSE IF Contains(detail, <<"r", "e", "d", " ", "c", "a", "r", "d">>)
             THEN <<"C", "a", "r", "t", "ã", "o", " ", "V", "e", "r", "m", "e", "l", "h", "o">>
        ELSE IF Contains(detail, <<"s", "u", "b", "s", "t", "i", "t", "u", "t", "i", "o", "n">>)
             THEN <<"S", "u", "b", "s", "t", "i", "t", "u", "i", "ç", "ã", "o">>
        ELSE IF Contains(detail, <<"c", "o", "r", "n", "e", "r">>)
             THEN <<"E", "s", "c", "a", "n", "t", "e", "i", "o">>
        ELSE DictGet(ev, "type", <<"E", "v", "e", "n", "t", "o">>)

\* the processed events of stats_aovivo: display time, category, detail,
\* player and sort key of each raw event, latest first (the sort is stable)
processed_events(events) ==
    LET t(ev) == DictGet(ev, "time", EmptyDict)
        elapsed(ev) == DictGet(t(ev), "elapsed", JNull)
        extra(ev) == DictGet(t(ev), "extra", JNull)
        num(v) == IF Truthy(v) THEN v.v ELSE 0
        display(ev) ==
            IF elapsed(ev) = JNull THEN <<"-">>
            ELSE IF Truthy(extra(ev))
                 THEN IntStr(elapsed(ev).v) \o <<"+">> \o IntStr(extra(ev).v) \o <<"'">>
            ELSE IntStr(elapsed(ev).v) \o <<"'">>
        one(ev) == [ display_time |-> display(ev),
                     category |-> classify_event(ev),
                     detail |-> DictGet(ev, "detail", JNull),
                     player |-> DictGet(DictGet(ev, "player", EmptyDict), "name", JNull),
                     _sort |-> num(elapsed(ev)) + num(extra(ev)) ]
        insert(s, e) ==
            LET k == Cardinality({j \in 1..Len(s) : s[j]._sort >= e._sort})
            IN  SubSeq(s, 1, k) \o <<e>> \o SubSeq(s, k + 1, Len(s))
        sorted[i \in 0..Len(events)] ==
            IF i = 0 THEN <<>> ELSE insert(sorted[i - 1], one(events[i]))
    IN  sorted[Len(events)]

\* the result dict of stats_aovivo for a fixture found upstream
aovivo_record(item, stats_resp, events_resp) ==
    [ fixture |-> item,
      teams |-> DictGet(item, "teams", EmptyDict),
      score |-> DictGet(item, "score", EmptyDict),
      status |-> DictGet(DictGet(item, "fixture", EmptyDict), "status", EmptyDict),
      statistics |-> full_stats(item.teams.home.id.v, stats_resp),
      events |-> processed_events(IF IsNoResponse(events_resp) THEN <<>>
                                  ELSE DictGet(events_resp, "response", <<>>)) ]

\* raw events of the provider: a goal at 20', a yellow card at 30', a yellow
\* card at 45+2', a goal at 82', a review at 83' and a yellow card at 84'
RawEvent(minute, extra, type, detail) ==
    [ time |-> [elapsed |-> JInt(minute), extra |-> extra],
      type |-> type, detail |-> JStr(detail), player |-> [name |-> JStr(S.Ajax)] ]

UpstreamEvents ==
    LET goal(m) == RawEvent(m, JNull, <<"G", "o", "a", "l">>,
                            <<"N", "o", "r", "m", "a", "l", " ", "G", "o", "a", "l">>)
        yellow(m, x) == RawEvent(m, x, <<"C", "a", "r", "d">>,
                                 <<"Y", "e", "l", "l", "o", "w", " ", "C", "a", "r", "d">>)
        review(m) == RawEvent(m, JNull, <<"V", "a", "r">>,
                              <<"P", "e", "n", "a", "l", "t", "y", " ", "c", "o", "n", "f", "i", "r", "m", "e", "d">>)
    IN  { <<>>,
          << goal(20) >>,
          << yellow(30, JNull) >>,
          << goal(20), yellow(30, JNull) >>,
          << goal(20), yellow(45, JInt(2)) >>,
          << goal(20), goal(82) >>,
          << yellow(30, JNull), review(83), yellow(84, JNull) >>,
          << goal(20), yellow(30, JNull), goal(82), yellow(84, JNull) >> }

\* the minute of a raw event and the goals among raw events
EventMinute(ev) == ev.time.elapsed.v
GoalEvents(events) == {i \in 1..Len(events) : events[i].type = <<"G", "o", "a", "l">>}

\* the fixture the provider answers: the home side scored every goal there
\* is among the events, none of which is later than the minute played
UpstreamFixture(elapsed, events) ==
    LET n == JInt(Cardinality(GoalEvents(events)))
    IN  [ fixture |-> [id |-> JInt(1), status |-> [elapsed |-> elapsed]],
          teams |-> [home |-> [id |-> JInt(HomeId), name |-> JStr(S.Ajax)],
                     away |-> [id |-> JInt(AwayId), name |-> JStr(S.Roma)]],
          goals |-> [home |-> n, away |-> JInt(0)],
          score |-> [fulltime |-> [home |-> n, away |-> JInt(0)]] ]

LiveMinutes == {30, 38, 44, 60, 85, 89}

LiveStatistics ==
    [response |-> << [team |-> [id |-> JInt(HomeId)],
                      statistics |-> << [type |-> JStr(S.Shots_on_Goal), value |-> JInt(5)],
                                        [type |-> JStr(S.Total_Shots), value |-> JInt(12)] >>],
                     [team |-> [id |-> JInt(AwayId)],
                      statistics |-> << [type |-> JStr(S.Shots_on_Goal), value |-> JInt(3)],
                                        [type |-> JStr(S.Total_Shots), value |-> JInt(7)] >>] >>]

InitPipeline ==
    /\ variant \in {"v1", "v2"}
    /\ pc = "aovivo"
    /\ events_raw \in {NoResponse} \cup {[response |-> e] : e \in UpstreamEvents}
    /\ fixture \in {NoResponse, [response |-> <<>>]}
                   \cup { [response |-> <<UpstreamFixture(me[1], me[2])>>] :
                            me \in {x \in LiveMinutes \X UpstreamEvents :
                                      /\ ~IsNoResponse(events_raw) => x[2] = events_raw.response
                                      /\ \A i \in 1..Len(x[2]) : EventMinute(x[2][i]) <= x[1]} }
    /\ stats_raw = LiveStatistics
    /\ stats_map = EmptyDict
    /\ preds = <<>>
    /\ summary = Nothing
    /\ odds_raw = Nothing
    /\ enhanced = <<>>
    /\ result = Nothing
    /\ radar_data = Nothing
    /\ tips = <<>>
    \* nothing cached, or the record built a moment ago at 30' without events
    /\ cache \in {EmptyDict,
                  "radar_stats_1_full" :>
                      [ts |-> 0, data |-> aovivo_record(UpstreamFixture(30, <<>>), LiveStatistics,
                                                        [response |-> <<>>])]}
    /\ now = 0
    /\ last_set = EmptyDict
    /\ requests = 0
    /\ callers = EmptyDict
    /\ USER_STATE = EmptyDict
    /\ META_VERIFY_TOKEN = JNull

\* radar_data = stats_aovivo(game_id) in api_analyze_live; without a record
\* the handler answers that no live data could be had
StatsAoVivo ==
    /\ pc = "aovivo"
    /\ LET ck == "radar_stats_1_full"
           rec == DictGet(cache, ck, Nothing)
           expired == rec # Nothing /\ now - rec.ts > CACHE_TTL
           cached == IF rec = Nothing \/ expired THEN JNull ELSE rec.data
           found == ~IsNoResponse(fixture) /\ DictGet(fixture, "response", <<>>) # <<>>
           built == aovivo_record(fixture.response[1], stats_raw, events_raw)
       IN  IF cached # JNull
           THEN /\ radar_data' = cached
                /\ pc' = "live"
                /\ requests' = 0
                /\ UNCHANGED <<cache, result>>
           ELSE IF ~found
           THEN /\ radar_data' = JNull
                /\ pc' = "done"
                /\ result' = [analysis_text |-> "Não foi possível obter dados ao vivo do jogo."]
                /\ cache' = [x \in DOMAIN cache \ (IF expired THEN {ck} ELSE {}) |-> cache[x]]
                /\ requests' = 1
           ELSE /\ radar_data' = built
                /\ pc' = "live"
                /\ cache' = DictSet(cache, ck, [ts |-> now, data |-> built])
                /\ requests' = 3
                /\ UNCHANGED result
    /\ UNCHANGED <<variant, analysisVars, tips, now, last_set, events_raw, callers, webVars>>

NextPipeline == StatsAoVivo \/ AnalyzeLive

SpecPipeline == InitPipeline /\ [][NextPipeline]_vars

\* the engine returned on a record stats_aovivo built from what the provider
\* answers now
PipelineReturned == pc = "tips" /\ requests > 0

\* the added time the events of the provider in the half being played call
\* for, in minutes: 30 s per yellow card, 60 s per goal, 60 s per review
\* without a duration (the provider lists no foul)
StatedAddedTime ==
    LET events == IF IsNoResponse(events_raw) THEN <<>> ELSE events_raw.response
        in_half(ev) == IF Elapsed < 45 THEN EventMinute(ev) <= 45 ELSE EventMinute(ev) > 45
        seconds(ev) ==
            IF ~in_half(ev) THEN 0
            ELSE IF ev.detail = JStr(<<"Y", "e", "l", "l", "o", "w", " ", "C", "a", "r", "d">>) THEN 30
            ELSE IF ev.type = <<"G", "o", "a", "l">> THEN 60
            ELSE IF ev.type = <<"V", "a", "r">> THEN 60
            ELSE 0
        total[i \in 0..Len(events)] == IF i = 0 THEN 0 ELSE total[i - 1] + seconds(events[i])
    IN  (total[Len(events)] + 59) \div 60

\* C22: on the record of stats_aovivo with elapsed in [35,45) or [80,90) the
\* live engine attaches an added-time estimate for the half being played,
\* equal to the seconds of that half's events (15 per foul, 30 per yellow
\* card, 60 per goal, at least 60 per review) rounded up to whole minutes
C22_AddedTimeEstimate ==
    (PipelineReturned /\ ((35 <= Elapsed /\ Elapsed < 45) \/ (80 <= Elapsed /\ Elapsed < 90)))
        => /\ "extra_time_est" \in DOMAIN radar_data
           /\ radar_data.extra_time_est.half = (IF Elapsed < 45 THEN 1 ELSE 2)
           /\ radar_data.extra_time_est.minutes = StatedAddedTime

\* C23: on the record of stats_aovivo the live engine computes the score the
\* provider reports (1-0 upstream gives home_goals = 1, away_goals = 0)
C23_ScoreOfTheRecord ==
    PipelineReturned =>
        LET out == IF variant = "v1" THEN analyze_live_from_stats_v1(radar_data)
                   ELSE analyze_live_from_stats_v2(radar_data)
        IN  /\ JInt(out.goals.home) = fixture.response[1].goals.home
            /\ JInt(out.goals.away) = fixture.response[1].goals.away

\* C24: every best_odd that enrichment attaches is null or a price of at
\* least 1.0 (100 hundredths), whatever the odds response: a quote whose
\* price is missing, does not parse, is zero or is below 1 included
C24_OddsAtLeastOne ==
    EnrichmentReturned =>
        \A i \in 1..Len(enhanced) :
            \/ BestOdd(enhanced[i]) = JNull
            \/ (BestOdd(enhanced[i]).t = "num" /\ BestOdd(enhanced[i]).v >= 100)

(***************************************************************************)
(* The lookups of tipster.py and their memo cache: the fixture list        *)
(* (get_fixtures_for_dates), the statistics of a fixture                   *)
(* (fetch_football_statistics) and the odds of a fixture (the request of   *)
(* enhance_predictions_with_odds). requests is the number of requests the  *)
(* latest call sent upstream; last_set keeps, for each lookup, the time    *)
(* and the value of its latest call that went upstream.                    *)
(***************************************************************************)
\* what normalising the provider's answers gives: no fixture, or one
FixtureLists == {[t |-> "list", v |-> <<>>], [t |-> "list", v |-> <<1>>]}

InitLookup ==
    /\ variant = "tipster"
    /\ pc = "lookup"
    /\ fixture = Nothing
    /\ stats_raw = Nothing
    /\ stats_map = EmptyDict
    /\ preds = <<>>
    /\ summary = Nothing
    /\ odds_raw = Nothing
    /\ enhanced = <<>>
    /\ result = Nothing
    /\ radar_data = Nothing
    /\ tips = <<>>
    /\ cache = EmptyDict
    /\ now = 0
    /\ last_set = EmptyDict
    /\ events_raw = Nothing
    /\ requests = 0
    /\ callers = EmptyDict
    /\ USER_STATE = EmptyDict
    /\ META_VERIFY_TOKEN = JNull

\* get_fixtures_for_dates(0): the cached list when it is truthy, else the
\* live request and one request for today, and the list cached
GetFixturesForDates ==
    /\ \E all_fixtures \in FixtureLists :
        LET ck == "all_fixtures_v4_0"
            rec == DictGet(cache, ck, Nothing)
            expired == rec # Nothing /\ now - rec.ts > CACHE_TTL
            cached == IF rec = Nothing \/ expired THEN JNull ELSE rec.data
        IN  IF cached # JNull /\ cached.v # <<>>
            THEN /\ result' = [op |-> "fixtures", key |-> ck, returned |-> cached]
                 /\ requests' = 0
                 /\ UNCHANGED <<cache, last_set>>
            ELSE /\ result' = [op |-> "fixtures", key |-> ck, returned |-> all_fixtures]
                 /\ requests' = 2
                 /\ cache' = DictSet(cache, ck, [ts |-> now, data |-> all_fixtures])
                 /\ last_set' = DictSet(last_set, "fixtures", [at |-> now, value |-> all_fixtures])
    /\ UNCHANGED <<variant, pc, analysisVars, liveVars, now, events_raw, callers, webVars>>

\* fetch_football_statistics(fixture_id) and api_get_raw("odds", ...): one
\* request each, nothing read from or written to the cache
FetchUncached(op) ==
    \E answer \in {NoResponse, [response |-> <<>>]} :
        /\ result' = [op |-> op, key |-> "", returned |-> answer]
        /\ requests' = 1
        /\ last_set' = DictSet(last_set, op, [at |-> now, value |-> answer])
        /\ UNCHANGED <<variant, pc, analysisVars, liveVars, cache, now, events_raw, callers, webVars>>

FetchFootballStatistics == FetchUncached("statistics")

FetchOdds == FetchUncached("odds")

\* time passes between calls
TickLookup ==
    /\ now < MaxClock
    /\ now' = now + 1
    /\ result' = [op |-> "tick", key |-> "", returned |-> JNull]
    /\ requests' = 0
    /\ UNCHANGED <<variant, pc, analysisVars, liveVars, cache, last_set, events_raw, callers, webVars>>

NextLookup == GetFixturesForDates \/ FetchFootballStatistics \/ FetchOdds \/ TickLookup

SpecLookup == InitLookup /\ [][NextLookup]_vars

\* C25: a lookup of the fixture list, of the statistics or of the odds that
\* follows a completed call of the same lookup inside the TTL sends no
\* request upstream, whatever that call returned (an empty list included)
C25_RepeatedLookupFromCache ==
    [][ \A op \in {"fixtures", "statistics", "odds"} :
          (/\ result'.op = op
           /\ op \in DOMAIN last_set
           /\ now - last_set[op].at <= CACHE_TTL)
              => requests' = 0 ]_vars

(***************************************************************************)
(* Two callers of stats_aovivo (radar_ia.py) running side by side on the   *)
(* same game: each step is one access to the shared _cache dict or one     *)
(* read of the clock, the steps interleave freely                          *)
(***************************************************************************)
Callers == {1, 2}

RaceKey == "radar_stats_1_full"

\* callers[c]: where caller c is, the rec it read in _cache_get, what it
\* fetched, the time.time() of its _cache_set, what it returned, and whether
\* its _cache_get returned None
InitRace ==
    /\ variant = "radar"
    /\ pc = "race"
    /\ fixture = Nothing
    /\ stats_raw = Nothing
    /\ stats_map = EmptyDict
    /\ preds = <<>>
    /\ summary = Nothing
    /\ odds_raw = Nothing
    /\ enhanced = <<>>
    /\ result = Nothing
    /\ radar_data = Nothing
    /\ tips = <<>>
    \* nothing cached yet, or a record cached earlier
    /\ cache \in {EmptyDict} \cup {RaceKey :> [ts |-> 0, data |-> d] : d \in CacheValues}
    /\ now \in {0, CACHE_TTL}
    /\ last_set = EmptyDict
    /\ events_raw = Nothing
    /\ requests = 0
    /\ callers = [c \in Callers |-> [pc |-> "get", rec |-> Nothing, fetched |-> JNull,
                                     ts |-> 0, returned |-> JNull, missed |-> FALSE]]
    /\ USER_STATE = EmptyDict
    /\ META_VERIFY_TOKEN = JNull

RaceUnchanged == <<variant, pc, result, analysisVars, liveVars, last_set, events_raw, requests, webVars>>

\* _cache_get: rec = _cache.get(key); None when there is no entry
CallerGet(c) ==
    /\ callers[c].pc = "get"
    /\ LET rec == DictGet(cache, RaceKey, Nothing)
       IN  callers' = [callers EXCEPT ![c].rec = rec,
                                      ![c].missed = (rec = Nothing),
                                      ![c].pc = IF rec = Nothing THEN "fetch" ELSE "expiry"]
    /\ UNCHANGED <<cache, now, RaceUnchanged>>

\* _cache_get: an entry older than the TTL is popped and None returned, else
\* its data is returned and stats_aovivo returns it
CallerExpiry(c) ==
    /\ callers[c].pc = "expiry"
    /\ IF now - callers[c].rec.ts > CACHE_TTL
       THEN /\ cache' = [x \in DOMAIN cache \ {RaceKey} |-> cache[x]]
            /\ callers' = [callers EXCEPT ![c].missed = TRUE, ![c].pc = "fetch"]
       ELSE /\ callers' = [callers EXCEPT ![c].returned = callers[c].rec.data, ![c].pc = "done"]
            /\ UNCHANGED cache
    /\ UNCHANGED <<now, RaceUnchanged>>

\* the three requests of stats_aovivo and the record built from them; without
\* a fixture it returns None and sets nothing
CallerFetch(c) ==
    /\ callers[c].pc = "fetch"
    /\ \E data \in CacheValues \cup {JNull} :
          callers' = [callers EXCEPT ![c].fetched = data,
                                     ![c].pc = IF data = JNull THEN "done" ELSE "stamp"]
    /\ UNCHANGED <<cache, now, RaceUnchanged>>

\* _cache_set: time.time() is evaluated while the entry is built
CallerStamp(c) ==
    /\ callers[c].pc = "stamp"
    /\ callers' = [callers EXCEPT ![c].ts = now, ![c].pc = "store"]
    /\ UNCHANGED <<cache, now, RaceUnchanged>>

\* an assignment that keeps the timestamp of the entry it overwrites
StoreKeepingTs(c, entry) ==
    DictSet(cache, RaceKey,
            IF RaceKey \in DOMAIN cache THEN [ts |-> cache[RaceKey].ts, data |-> entry.data]
            ELSE entry)

\* _cache[key] = {"ts": ..., "data": data}: one store of the whole entry
StoreEntry(c, entry) == DictSet(cache, RaceKey, entry)

\* _cache_set stores the entry and stats_aovivo returns its own result
CallerStore(c) ==
    /\ callers[c].pc = "store"
    /\ cache' = StoreEntry(c, [ts |-> callers[c].ts, data |-> callers[c].fetched])
    /\ callers' = [callers EXCEPT ![c].returned = callers[c].fetched, ![c].pc = "done"]
    /\ UNCHANGED <<now, RaceUnchanged>>

\* time passes between the steps
TickRace ==
    /\ now < MaxClock
    /\ now' = now + 1
    /\ UNCHANGED <<cache, callers, RaceUnchanged>>

NextRace ==
    \/ \E c \in Callers : CallerGet(c)
    \/ \E c \in Callers : CallerExpiry(c)
    \/ \E c \in Callers : CallerFetch(c)
    \/ \E c \in Callers : CallerStamp(c)
    \/ \E c \in Callers : CallerStore(c)
    \/ TickRace

SpecRace == InitRace /\ [][NextRace]_vars

\* both callers missed, fetched a record, set it and returned
BothMissedAndSet ==
    \A c \in Callers : callers[c].pc = "done" /\ callers[c].missed /\ callers[c].fetched # JNull

\* C26: when two callers of the same key both miss, fetch and set, the entry
\* of the key is in the end exactly what one of the two stored, its value
\* with the timestamp of that same write, and each caller returned the value
\* it fetched itself
C26_LostUpdateOnly ==
    BothMissedAndSet =>
        /\ RaceKey \in DOMAIN cache
        /\ \E c \in Callers : cache[RaceKey] = [ts |-> callers[c].ts, data |-> callers[c].fetched]
        /\ \A c \in Callers : callers[c].returned = callers[c].fetched

\* the two callers fetched different records at different times, the second
\* one read the expired entry before the first stored, and the entry holds
\* the later write
C26_Witness ==
    /\ pc = "race"
    /\ BothMissedAndSet
    /\ callers[1].fetched # callers[2].fetched
    /\ callers[1].ts < callers[2].ts
    /\ callers[2].rec # Nothing
    /\ cache[RaceKey] = [ts |-> callers[2].ts, data |-> callers[2].fetched]

\* C27: in the pre-match engine a recommendation naming the home side
\* ('Vitória Casa', 'Casa (DNB)', 'Casa ou Empate') is emitted only when
\* power_diff > 0, and one naming the away side ('Vitória Visitante',
\* 'Fora (DNB)', 'Fora ou Empate') only when power_diff < 0
C27_SideFollowsPowerDiff ==
    HeuristicsReturned =>
        \A i \in 1..Len(preds) :
            /\ preds[i].recommendation \in {S.Vitoria_Casa, S.Casa_DNB, S.Casa_ou_Empate}
                  => PowerDiff > 0
            /\ preds[i].recommendation \in {S.Vitoria_Visitante, S.Fora_DNB, S.Fora_ou_Empate}
                  => PowerDiff < 0

(***************************************************************************)
(* The webhook of app.py: the verification request (GET) and the session   *)
(* machine of the WhatsApp messages (POST). result keeps the request of    *)
(* the latest call and what the handler answered: for a message, the kind  *)
(* of the text sent to the user ("none" when nothing was sent).            *)
(***************************************************************************)
\* for i, game in enumerate(pre_games[:20], start=1)
DisplayLimit == 20

Users == {"5511", "5522"}

\* message bodies as the user types them
Messages ==
    { <<"1">>, <<"2">>, <<"0">>, <<"2", "1">>, <<" ", "1", " ">>,
      <<"P", "r", "e">>, <<"V", "i", "v", "o">>, <<"o", "i">>, <<" ">> }

\* a list of n games of the principal leagues
GameList(n) == [i \in 1..n |-> [game_id |-> i]]

InitWebhook ==
    /\ variant = "sba"
    /\ pc = "webhook"
    \* how many scheduled and live games of the principal leagues the fixture
    \* list of sba.get_fixtures_for_dates has
    /\ fixture \in [pre : {0, 1, DisplayLimit + 1}, live : {0, 2}]
    /\ stats_raw = Nothing
    /\ stats_map = EmptyDict
    /\ preds = <<>>
    /\ summary = Nothing
    /\ odds_raw = Nothing
    /\ enhanced = <<>>
    /\ result = Nothing
    /\ radar_data = Nothing
    /\ tips = <<>>
    /\ cache = EmptyDict
    /\ now = 0
    /\ last_set = EmptyDict
    /\ events_raw = Nothing
    /\ requests = 0
    /\ callers = EmptyDict
    /\ USER_STATE = EmptyDict
    \* os.environ.get("META_VERIFY_TOKEN"): None when the variable is not set
    /\ META_VERIFY_TOKEN \in {JNull, JStr(<<"s", "3">>)}

WebhookUnchanged == <<variant, pc, analysisVars, liveVars, cacheVars, upstreamVars>>

\* GET /webhook: the verification handshake
WebhookGet ==
    /\ \E mode \in {JNull, JStr(<<"s", "u", "b", "s", "c", "r", "i", "b", "e">>), JStr(<<"x">>)},
          verify_token \in {JNull, JStr(<<"s", "3">>), JStr(<<"x">>)},
          challenge \in {JStr(<<"4", "2">>)} :
          LET ok == /\ mode = JStr(<<"s", "u", "b", "s", "c", "r", "i", "b", "e">>)
                    /\ verify_token = META_VERIFY_TOKEN
          IN  result' = [method |-> "GET", mode |-> mode, verify_token |-> verify_token,
                         body |-> IF ok THEN challenge
                                  ELSE JStr(<<"Verification token mismatch">>),
                         status |-> IF ok THEN 200 ELSE 403]
    /\ UNCHANGED <<USER_STATE, META_VERIFY_TOKEN, WebhookUnchanged>>

\* POST /webhook with one text message: from_number, the body, whether
\* sba.analyze raises for the chosen game and whether stats_aovivo has a
\* record of it
WebhookPost ==
    /\ \E from_number \in Users, body \in Messages,
          analysis_raises \in BOOLEAN, live_record \in BOOLEAN :
          LET incoming_msg == Lower(Strip(body))
              n_pre == fixture.pre
              n_live == fixture.live
              state0 == IF from_number \in DOMAIN USER_STATE THEN USER_STATE[from_number]
                        ELSE [step |-> "welcome"]
              user_step == state0.step
              idx == DigitsVal(incoming_msg) - 1
              game_list_type == IF user_step = "awaiting_pre_game_choice" THEN "pre_games"
                                ELSE IF user_step = "awaiting_live_game_choice" THEN "live_games"
                                ELSE ""
              games == DictGet(state0, game_list_type, <<>>)
              shown(list) == IF Len(list) < DisplayLimit THEN Len(list) ELSE DisplayLimit
              \* sba.analyze raises HTTPException; sba has no
              \* analyze_live_from_stats, reached when stats_aovivo gave a record
              raised == IF game_list_type = "pre_games" THEN analysis_raises ELSE live_record
              menu == [state |-> [state0 EXCEPT !.step = "awaiting_menu_choice"],
                       kind |-> "menu", shown |-> 0]
              out ==
                IF incoming_msg = <<>> THEN [state |-> Nothing, kind |-> "none", shown |-> 0]
                ELSE IF AllDigits(incoming_msg)
                THEN IF game_list_type # ""
                     THEN IF 0 <= idx /\ idx < Len(games)
                          THEN IF raised THEN [state |-> state0, kind |-> "none", shown |-> 0]
                               ELSE [state |-> [state0 EXCEPT !.step = "welcome"],
                                     kind |-> IF game_list_type = "pre_games" THEN "pre_analysis"
                                              ELSE "live_unavailable",
                                     shown |-> 0]
                          ELSE [state |-> state0, kind |-> "invalid", shown |-> 0]
                     ELSE menu
                ELSE IF \/ Contains(incoming_msg, <<"p", "r", "é">>)
                        \/ Contains(incoming_msg, <<"p", "r", "e">>)
                        \/ incoming_msg = <<"1">>
                THEN IF n_pre = 0 THEN [state |-> state0, kind |-> "no_pre_games", shown |-> 0]
                     ELSE [state |-> [step |-> "awaiting_pre_game_choice", pre_games |-> GameList(n_pre)],
                           kind |-> "pre_list", shown |-> shown(GameList(n_pre))]
                ELSE IF Contains(incoming_msg, <<"v", "i", "v", "o">>) \/ incoming_msg = <<"2">>
                THEN IF n_live = 0 THEN [state |-> state0, kind |-> "no_live_games", shown |-> 0]
                     ELSE [state |-> [step |-> "awaiting_live_game_choice", live_games |-> GameList(n_live)],
                           kind |-> "live_list", shown |-> shown(GameList(n_live))]
                ELSE menu
          IN  /\ USER_STATE' = IF out.state = Nothing THEN USER_STATE
                               ELSE DictSet(USER_STATE, from_number, out.state)
              /\ result' = [method |-> "POST", from |-> from_number, msg |-> incoming_msg,
                            kind |-> out.kind, shown |-> out.shown, body |-> JStr(<<"OK">>),
                            status |-> 200]
    /\ UNCHANGED <<META_VERIFY_TOKEN, WebhookUnchanged>>

NextWebhook == WebhookGet \/ WebhookPost

SpecWebhook == InitWebhook /\ [][NextWebhook]_vars

\* the step is the handling of a message sent by a user who has a session
MessageFrom(u) ==
    /\ result'.method = "POST"
    /\ result'.from = u
    /\ u \in DOMAIN USER_STATE

\* C28: a user in step awaiting_menu_choice who sends '1' is shown the
\* pre-live list and moved to awaiting_pre_game_choice, one who sends '2' is
\* shown the live list and moved to awaiting_live_game_choice, when the
\* fixture list has a game of that kind
C28_MenuChoiceOpensList ==
    [][ \A u \in Users :
          (MessageFrom(u) /\ USER_STATE[u].step = "awaiting_menu_choice")
             => /\ (result'.msg = <<"1">> /\ fixture.pre > 0)
                      => /\ result'.kind = "pre_list"
                         /\ USER_STATE'[u].step = "awaiting_pre_game_choice"
                /\ (result'.msg = <<"2">> /\ fixture.live > 0)
                      => /\ result'.kind = "live_list"
                         /\ USER_STATE'[u].step = "awaiting_live_game_choice" ]_vars

\* C29: in awaiting_pre_game_choice or awaiting_live_game_choice a numeric
\* reply is taken as a game choice only if it is the number of an entry of
\* the list that was displayed (at most 20 entries); every other number gets
\* the 'Número inválido' reply and leaves the session as it was
C29_OnlyDisplayedNumbers ==
    [][ \A u \in Users :
          (/\ MessageFrom(u)
           /\ USER_STATE[u].step \in {"awaiting_pre_game_choice", "awaiting_live_game_choice"}
           /\ AllDigits(result'.msg))
             => LET list == IF USER_STATE[u].step = "awaiting_pre_game_choice"
                            THEN DictGet(USER_STATE[u], "pre_games", <<>>)
                            ELSE DictGet(USER_STATE[u], "live_games", <<>>)
                    displayed == IF Len(list) < DisplayLimit THEN Len(list) ELSE DisplayLimit
                    n == DigitsVal(result'.msg)
                IN  IF 1 <= n /\ n <= displayed
                    THEN result'.kind # "invalid"
                    ELSE result'.kind = "invalid" /\ USER_STATE' = USER_STATE ]_vars

\* C30: GET /webhook answers 200 only to hub.mode = 'subscribe' with a
\* hub.verify_token equal to the configured token, and a request without
\* hub.verify_token is answered 403 whatever the configuration
C30_VerificationNeedsToken ==
    ("method" \in DOMAIN result /\ result.method = "GET")
        => /\ result.status = 200
                 => /\ result.mode = JStr(<<"s", "u", "b", "s", "c", "r", "i", "b", "e">>)
                    /\ result.verify_token = META_VERIFY_TOKEN
           /\ result.verify_token = JNull => result.status = 403

============================================================================
